---------------------------- MODULE Spec2Model ----------------------------
(***************************************************************************)
(* Token Bridge Relayer (Solana program): registry and configuration       *)
(* state machine, outbound transfers, inbound redemptions, and the         *)
(* fixed-point fee and native-swap arithmetic.                             *)
(*                                                                         *)
(* The program computes on u64 / u128 values, which exceed the integers    *)
(* the model checker evaluates natively.  Every u32 / u64 / u128 quantity  *)
(* is therefore an unbounded natural number written as a little-endian    *)
(* sequence of base-10000 limbs without high zero limbs (zero is << >>),   *)
(* and the arithmetic below is exact on that representation.               *)
(***************************************************************************)
EXTENDS Integers, Sequences, FiniteSets, TLC

---------------------------------------------------------------------------
(* Exact natural-number arithmetic on limb sequences.                      *)

LimbBase == 100 * 100

RECURSIVE BigNorm(_)
BigNorm(s) ==
    IF s = << >> THEN << >>
    ELSE IF s[Len(s)] = 0 THEN BigNorm(SubSeq(s, 1, Len(s) - 1))
    ELSE s

RECURSIVE BigOfNat(_)
BigOfNat(n) ==
    IF n = 0 THEN << >>
    ELSE << n % LimbBase >> \o BigOfNat(n \div LimbBase)

BigLimb(a, i) == IF i <= Len(a) THEN a[i] ELSE 0

RECURSIVE BigCmpFrom(_, _, _)
BigCmpFrom(a, b, i) ==
    IF i = 0 THEN 0
    ELSE IF a[i] < b[i] THEN -1
    ELSE IF a[i] > b[i] THEN 1
    ELSE BigCmpFrom(a, b, i - 1)

BigCmp(a, b) ==
    IF Len(a) < Len(b) THEN -1
    ELSE IF Len(a) > Len(b) THEN 1
    ELSE BigCmpFrom(a, b, Len(a))

BigLt(a, b) == BigCmp(a, b) = -1
BigLe(a, b) == BigCmp(a, b) # 1
BigGt(a, b) == BigCmp(a, b) = 1
BigIsZero(a) == a = << >>

RECURSIVE BigAddFrom(_, _, _, _)
BigAddFrom(a, b, i, carry) ==
    IF i > Len(a) /\ i > Len(b)
    THEN IF carry = 0 THEN << >> ELSE << carry >>
    ELSE LET s == BigLimb(a, i) + BigLimb(b, i) + carry
         IN  << s % LimbBase >> \o BigAddFrom(a, b, i + 1, s \div LimbBase)

BigAdd(a, b) == BigAddFrom(a, b, 1, 0)

RECURSIVE BigSubFrom(_, _, _, _)
BigSubFrom(a, b, i, borrow) ==
    IF i > Len(a) THEN << >>
    ELSE LET d == a[i] - BigLimb(b, i) - borrow
         IN  IF d < 0
             THEN << d + LimbBase >> \o BigSubFrom(a, b, i + 1, 1)
             ELSE << d >> \o BigSubFrom(a, b, i + 1, 0)

\* a - b for a >= b
BigSub(a, b) == BigNorm(BigSubFrom(a, b, 1, 0))

RECURSIVE BigMulSmallFrom(_, _, _, _)
BigMulSmallFrom(a, d, i, carry) ==
    IF i > Len(a)
    THEN IF carry = 0 THEN << >> ELSE << carry >>
    ELSE LET p == a[i] * d + carry
         IN  << p % LimbBase >> \o BigMulSmallFrom(a, d, i + 1, p \div LimbBase)

\* a * d for a limb d
BigMulSmall(a, d) == IF d = 0 THEN << >> ELSE BigMulSmallFrom(a, d, 1, 0)

RECURSIVE BigMulFrom(_, _, _)
BigMulFrom(a, b, i) ==
    IF i > Len(b) THEN << >>
    ELSE BigAdd(BigMulSmall(a, b[i]), << 0 >> \o BigMulFrom(a, b, i + 1))

BigMul(a, b) ==
    IF a = << >> \/ b = << >> THEN << >> ELSE BigNorm(BigMulFrom(a, b, 1))

RECURSIVE BigQuotLimb(_, _, _, _)
\* the largest limb d in lo..hi with b * d <= cur
BigQuotLimb(cur, b, lo, hi) ==
    IF lo = hi THEN lo
    ELSE LET mid == (lo + hi + 1) \div 2
         IN  IF BigLe(BigMulSmall(b, mid), cur)
             THEN BigQuotLimb(cur, b, mid, hi)
             ELSE BigQuotLimb(cur, b, lo, mid - 1)

RECURSIVE BigDivFrom(_, _, _)
BigDivFrom(a, b, i) ==
    IF i > Len(a) THEN [q |-> << >>, r |-> << >>]
    ELSE LET hi  == BigDivFrom(a, b, i + 1)
             cur == BigNorm(<< a[i] >> \o hi.r)
             d   == IF BigLt(cur, b) THEN 0
                    ELSE BigQuotLimb(cur, b, 1, LimbBase - 1)
         IN  [q |-> << d >> \o hi.q, r |-> BigSub(cur, BigMulSmall(b, d))]

RECURSIVE BigDivLimbFrom(_, _, _)
\* long division of a by the single limb d, from limb i upwards
BigDivLimbFrom(a, d, i) ==
    IF i > Len(a) THEN [q |-> << >>, r |-> 0]
    ELSE LET hi  == BigDivLimbFrom(a, d, i + 1)
             cur == hi.r * LimbBase + a[i]
         IN  [q |-> << cur \div d >> \o hi.q, r |-> cur % d]

\* the number of zero limbs below the top limb of b when b has the form
\* d * LimbBase^k with one limb d, and -1 otherwise
BigShift(b) ==
    IF \A i \in 1..(Len(b) - 1) : b[i] = 0 THEN Len(b) - 1 ELSE -1

\* floor(a / b) and a mod b for b # 0
BigDivMod(a, b) ==
    IF BigShift(b) >= 0
    THEN LET k == BigShift(b)
             q == IF Len(a) <= k THEN << >>
                  ELSE BigNorm(BigDivLimbFrom(SubSeq(a, k + 1, Len(a)),
                                              b[Len(b)], 1).q)
         IN  [q |-> q, r |-> BigSub(a, BigMul(q, b))]
    ELSE LET res == BigDivFrom(a, b, 1)
         IN  [q |-> BigNorm(res.q), r |-> res.r]

BigDiv(a, b) == BigDivMod(a, b).q
BigMod(a, b) == BigDivMod(a, b).r

\* 10^e
BigPow10(e) ==
    LET k == e \div 4
        j == e % 4
        top == IF j = 0 THEN 1 ELSE IF j = 1 THEN 10 ELSE IF j = 2 THEN 100 ELSE 1000
    IN  [i \in 1..(k + 1) |-> IF i = k + 1 THEN top ELSE 0]



---------------------------------------------------------------------------
(* Program state.                                                          *)

VARIABLES
    overflow_checks,    \* build profile: arithmetic overflow panics (TRUE) or wraps (FALSE)
    upgrade_authority,  \* upgrade authority of the program (program_data), NoKey when immutable
    initialized,        \* the three config accounts exist
    sender_config,      \* SenderConfig
    redeemer_config,    \* RedeemerConfig
    owner_config,       \* OwnerConfig
    registered_tokens,  \* RegisteredToken account per mint
    foreign_contracts,  \* ForeignContract account per seed bytes
    signer_sequence,    \* SignerSequence.value per payer
    posted_vaas,        \* attested transfer messages delivered by the bridge
    claimed,            \* Token Bridge claim accounts that exist (by message id)
    calc,               \* a call of a pure function (calculator, codec): arguments and result
    last                \* outcome of the most recent instruction

vars == << overflow_checks, upgrade_authority, initialized, sender_config, redeemer_config,
           owner_config, registered_tokens, foreign_contracts,
           signer_sequence, posted_vaas, claimed, calc, last >>

---------------------------------------------------------------------------
(* Machine integers.                                                       *)

\* The limbs of 2^64 and 2^128 and of the largest u32, u64 and u128,
\* least significant first.
TwoPow64 == << 1616, 955, 737, 6744, 1844 >>
U64_MAX  == << 1615, 955, 737, 6744, 1844 >>
U32_MAX  == << 7295, 9496, 42 >>
TwoPow128 == << 1456, 6821, 4317, 4607, 6337, 4634, 938, 6692, 2823, 340 >>
U128_MAX == << 1455, 6821, 4317, 4607, 6337, 4634, 938, 6692, 2823, 340 >>

Zero == << >>
One  == << 1 >>

\* Option::None of the checked arithmetic
None == << -1 >>
\* the instruction aborts (arithmetic overflow in a build with overflow checks)
Panic == << -2 >>

IsSome(x) == x # None /\ x # Panic

\* u128::checked_mul, chained with `?`
checked_mul(a, b) ==
    IF a = Panic \/ b = Panic THEN Panic
    ELSE IF a = None \/ b = None THEN None
    ELSE LET p == BigMul(a, b)
         IN  IF BigGt(p, U128_MAX) THEN None ELSE p

\* u128::checked_div, chained with `?`
checked_div(a, b) ==
    IF a = Panic \/ b = Panic THEN Panic
    ELSE IF a = None \/ b = None THEN None
    ELSE IF BigIsZero(b) THEN None
    ELSE BigDiv(a, b)

\* u128::checked_pow(10, e)
checked_pow10(e) ==
    LET p == BigPow10(e)
    IN  IF BigGt(p, U128_MAX) THEN None ELSE p

\* u128::pow(10, e): unchecked, overflow depends on the build profile
pow10_u128(e) ==
    LET p == BigPow10(e)
    IN  IF BigLe(p, U128_MAX) THEN p
        ELSE IF overflow_checks THEN Panic
        ELSE BigMod(p, TwoPow128)

\* u64::try_from(x).ok(), chained with `?`
u64_try_from(x) ==
    IF x = Panic THEN Panic
    ELSE IF x = None THEN None
    ELSE IF BigGt(x, U64_MAX) THEN None ELSE x

\* a + b on u64: unchecked `+`
u64_add(a, b) ==
    IF a = Panic \/ b = Panic THEN Panic
    ELSE LET s == BigAdd(a, b)
         IN  IF BigLe(s, U64_MAX) THEN s
             ELSE IF overflow_checks THEN Panic
             ELSE BigSub(s, TwoPow64)

\* a - b on u64: unchecked `-`
u64_sub(a, b) ==
    IF a = Panic \/ b = Panic THEN Panic
    ELSE IF BigLe(b, a) THEN BigSub(a, b)
    ELSE IF overflow_checks THEN Panic
    ELSE BigSub(BigAdd(a, TwoPow64), b)

\* a * b on u64: unchecked `*`
u64_mul(a, b) ==
    IF a = Panic \/ b = Panic THEN Panic
    ELSE LET p == BigMul(a, b)
         IN  IF BigLe(p, U64_MAX) THEN p
             ELSE IF overflow_checks THEN Panic
             ELSE BigMod(p, TwoPow64)

---------------------------------------------------------------------------
(* Bridge collaborator: conversions to the 8-decimal wire representation.  *)

BridgeDecimals == 8

normalize_amount(amount, decimals) ==
    IF decimals > BridgeDecimals
    THEN BigDiv(amount, BigPow10(decimals - BridgeDecimals))
    ELSE amount

denormalize_amount(amount, decimals) ==
    IF decimals > BridgeDecimals
    THEN u64_mul(amount, BigPow10(decimals - BridgeDecimals))
    ELSE amount

truncate_amount(amount, decimals) ==
    denormalize_amount(normalize_amount(amount, decimals), decimals)

---------------------------------------------------------------------------
(* Fixed-point fee engine and native-swap calculator.                      *)

SWAP_RATE_PRECISION == BigPow10(8)
NATIVE_DECIMALS == 9

\* A variant that leaves the swap rate precision out of the numerator.
checked_token_fee_without_precision(fee, decimals, swap_rate, relayer_fee_precision) ==
    LET numerator   == checked_mul(fee, checked_pow10(decimals))
        denominator == checked_mul(swap_rate, relayer_fee_precision)
        token_fee   == checked_div(numerator, denominator)
    IN  u64_try_from(token_fee)

\* ForeignContract::checked_token_fee
checked_token_fee(fee, decimals, swap_rate, relayer_fee_precision) ==
    LET numerator   == checked_mul(checked_mul(fee, checked_pow10(decimals)),
                                   SWAP_RATE_PRECISION)
        denominator == checked_mul(swap_rate, relayer_fee_precision)
        token_fee   == checked_div(numerator, denominator)
    IN  u64_try_from(token_fee)

\* RelayerFee::checked_token_fee: the power of ten is the unchecked u128::pow.
RelayerFee_checked_token_fee(fee, decimals, swap_rate, relayer_fee_precision) ==
    LET numerator   == checked_mul(checked_mul(fee, pow10_u128(decimals)),
                                   SWAP_RATE_PRECISION)
        denominator == checked_mul(swap_rate, relayer_fee_precision)
        token_fee   == checked_div(numerator, denominator)
    IN  u64_try_from(token_fee)

\* The end of native_swap_rate: a rate of zero is an error.
nonzero_u64(rate) ==
    IF ~IsSome(rate) THEN rate
    ELSE IF BigIsZero(rate) THEN None
    ELSE u64_try_from(rate)

\* RegisteredToken::native_swap_rate
native_swap_rate(token, sol_swap_rate, swap_rate_precision) ==
    nonzero_u64(checked_div(checked_mul(swap_rate_precision, sol_swap_rate),
                            token.swap_rate))

\* RegisteredToken::calculate_max_swap_amount_in
calculate_max_swap_amount_in(token, decimals, rate, swap_rate_precision) ==
    LET max_swap_amount_in ==
            IF decimals > NATIVE_DECIMALS
            THEN checked_div(
                     checked_mul(checked_mul(token.max_native_swap_amount, rate),
                                 pow10_u128(decimals - NATIVE_DECIMALS)),
                     swap_rate_precision)
            ELSE checked_div(
                     checked_mul(token.max_native_swap_amount, rate),
                     checked_mul(pow10_u128(NATIVE_DECIMALS - decimals),
                                 swap_rate_precision))
    IN  u64_try_from(max_swap_amount_in)

\* the (token_amount_in, native_amount_out) pair once rate and cap are known
native_swap_amount_out(decimals, rate, swap_rate_precision, amount_in) ==
    IF decimals > NATIVE_DECIMALS
    THEN checked_div(
             checked_mul(swap_rate_precision, amount_in),
             checked_mul(rate, pow10_u128(decimals - NATIVE_DECIMALS)))
    ELSE checked_div(
             checked_mul(checked_mul(swap_rate_precision, amount_in),
                         pow10_u128(NATIVE_DECIMALS - decimals)),
             rate)

\* swap_amounts without the zero case of lines 104-111
swap_amounts_charging_for_nothing(to_native_token_amount, amount_out) ==
    IF ~IsSome(amount_out) THEN amount_out
    ELSE IF IsSome(u64_try_from(amount_out))
    THEN << to_native_token_amount, amount_out >>
    ELSE None

\* The end of calculate_native_swap_amounts: a native amount that rounds to
\* zero cancels the swap, one that does not fit 64 bits is an error.
swap_amounts(to_native_token_amount, amount_out) ==
    IF ~IsSome(amount_out) THEN amount_out
    ELSE IF BigGt(amount_out, Zero)
    THEN IF IsSome(u64_try_from(amount_out))
         THEN << to_native_token_amount, amount_out >>
         ELSE None
    ELSE << Zero, Zero >>

\* swap_amounts_capped without the override of lines 82-87
swap_amounts_uncapped(decimals, rate, swap_rate_precision, to_native_token_amount, max_native_swap_amount_in) ==
    IF ~IsSome(max_native_swap_amount_in) THEN max_native_swap_amount_in
    ELSE swap_amounts(to_native_token_amount,
                      native_swap_amount_out(decimals, rate,
                                             swap_rate_precision,
                                             to_native_token_amount))

\* calculate_native_swap_amounts once the maximum amount that can be swapped
\* in is known: the to-native amount is capped by it.
swap_amounts_capped(decimals, rate, swap_rate_precision, to_native_token_amount, max_native_swap_amount_in) ==
    IF ~IsSome(max_native_swap_amount_in) THEN max_native_swap_amount_in
    ELSE IF BigGt(to_native_token_amount, max_native_swap_amount_in)
    THEN swap_amounts(max_native_swap_amount_in,
                      native_swap_amount_out(decimals, rate,
                                             swap_rate_precision,
                                             max_native_swap_amount_in))
    ELSE swap_amounts(to_native_token_amount,
                      native_swap_amount_out(decimals, rate,
                                             swap_rate_precision,
                                             to_native_token_amount))

\* calculate_native_swap_amounts once the native swap rate is known.
swap_amounts_at_rate(token, decimals, rate, swap_rate_precision, to_native_token_amount) ==
    IF ~IsSome(rate) THEN rate
    ELSE swap_amounts_capped(
             decimals, rate, swap_rate_precision, to_native_token_amount,
             calculate_max_swap_amount_in(token, decimals, rate,
                                          swap_rate_precision))

\* calculate_native_swap_amounts without the early return of lines 62-65
calculate_native_swap_amounts_without_early_return(token, decimals, sol_swap_rate, swap_rate_precision, to_native_token_amount) ==
    swap_amounts_at_rate(
        token, decimals,
        native_swap_rate(token, sol_swap_rate, swap_rate_precision),
        swap_rate_precision, to_native_token_amount)

\* RegisteredToken::calculate_native_swap_amounts; the result is None, Panic
\* or the pair << token_amount_in, native_amount_out >>
calculate_native_swap_amounts(token, decimals, sol_swap_rate, swap_rate_precision, to_native_token_amount) ==
    IF BigIsZero(to_native_token_amount) \/ BigIsZero(token.max_native_swap_amount)
    THEN << Zero, Zero >>
    ELSE swap_amounts_at_rate(
             token, decimals,
             native_swap_rate(token, sol_swap_rate, swap_rate_precision),
             swap_rate_precision, to_native_token_amount)

---------------------------------------------------------------------------
(* Wire format of the relay payload: byte sequences.                       *)

PAYLOAD_ID_TRANSFER_WITH_RELAY == 1
PAD_U64 == 24
PayloadSize == 97

\* [0u8; n]
zero_bytes(n) == [i \in 1..n |-> 0]

reverse_bytes(b) == [i \in 1..Len(b) |-> b[Len(b) + 1 - i]]

RECURSIVE low_bytes(_, _)
\* the n low bytes of x, least significant first
low_bytes(x, n) ==
    IF n = 0 THEN << >>
    ELSE << BigLimb(BigMod(x, << 256 >>), 1) >>
             \o low_bytes(BigDiv(x, << 256 >>), n - 1)

RECURSIVE bytes_value(_)
\* the number whose base-256 digits are b, most significant first
bytes_value(b) ==
    IF b = << >> THEN Zero
    ELSE BigAdd(BigMulSmall(bytes_value(SubSeq(b, 1, Len(b) - 1)), 256),
                BigOfNat(b[Len(b)]))

\* u64::to_be_bytes
u64_to_be_bytes(x) == reverse_bytes(low_bytes(x, 8))

\* the 8 bytes read least significant first
u64_from_le_bytes(out) == bytes_value(reverse_bytes(out))

\* u64::from_be_bytes
u64_from_be_bytes(out) == bytes_value(out)

\* TokenBridgeRelayerMessage::TransferWithRelay before any field is set
NoMessage ==
    [target_relayer_fee |-> Zero, to_native_token_amount |-> Zero,
     recipient |-> << >>]

\* io::Result<TokenBridgeRelayerMessage>
Ok(message) == [ok |-> TRUE, error |-> "", message |-> message]
Err(error) == [ok |-> FALSE, error |-> error, message |-> NoMessage]

\* AnchorSerialize for TokenBridgeRelayerMessage
serialize(message) ==
    << PAYLOAD_ID_TRANSFER_WITH_RELAY >>
        \o zero_bytes(PAD_U64)
        \o u64_to_be_bytes(message.target_relayer_fee)
        \o zero_bytes(PAD_U64)
        \o u64_to_be_bytes(message.to_native_token_amount)
        \o message.recipient

\* deserialize that reads the two integers without looking at their padding
deserialize_ignoring_padding(buf) ==
    IF Len(buf) # PayloadSize THEN Err("invalid payload size")
    ELSE IF buf[1] = PAYLOAD_ID_TRANSFER_WITH_RELAY
    THEN Ok([target_relayer_fee |->
                 u64_from_be_bytes(SubSeq(buf, PAD_U64 + 2, PAD_U64 + 9)),
             to_native_token_amount |->
                 u64_from_be_bytes(SubSeq(buf, 2 * PAD_U64 + 10,
                                          2 * PAD_U64 + 17)),
             recipient |-> SubSeq(buf, 2 * PAD_U64 + 18, PayloadSize)])
    ELSE Err("invalid payload ID")

\* AnchorDeserialize for TokenBridgeRelayerMessage: the reads advance through
\* the buffer (1 byte, 24, 8, 24, 8, 32), here by position
deserialize(buf) ==
    IF Len(buf) # PayloadSize THEN Err("invalid payload size")
    ELSE IF buf[1] = PAYLOAD_ID_TRANSFER_WITH_RELAY
    THEN IF SubSeq(buf, 2, PAD_U64 + 1) # zero_bytes(PAD_U64)
         THEN Err("u64 overflow")
         ELSE IF SubSeq(buf, PAD_U64 + 10, 2 * PAD_U64 + 9)
                     # zero_bytes(PAD_U64)
         THEN Err("u64 overflow")
         ELSE Ok([target_relayer_fee |->
                      u64_from_be_bytes(SubSeq(buf, PAD_U64 + 2,
                                               PAD_U64 + 9)),
                  to_native_token_amount |->
                      u64_from_be_bytes(SubSeq(buf, 2 * PAD_U64 + 10,
                                               2 * PAD_U64 + 17)),
                  recipient |-> SubSeq(buf, 2 * PAD_U64 + 18, PayloadSize)])
    ELSE Err("invalid payload ID")

-----------------------------------------------------------------------------
\* Public keys. Pubkey::default() is the all-zero key; Option<Pubkey>::None is
\* a value distinct from every key.
DefaultPubkey == 0
NoKey == -1
MaxKey == 3
Keys == 0 .. MaxKey

\* OwnerConfig::is_owner
is_owner(cfg, key) == cfg.owner = key

\* OwnerConfig::is_authorized
is_authorized(cfg, key) == is_owner(cfg, key) \/ cfg.assistant = key

\* A variant that also accepts the current owner.
is_pending_owner_or_owner(cfg, key) ==
    cfg.pending_owner = key \/ cfg.owner = key

\* OwnerConfig::is_pending_owner
is_pending_owner(cfg, key) == cfg.pending_owner = key

\* Account data before the accounts are created (zeroed).
NoSenderConfig ==
    [owner |-> DefaultPubkey, relayer_fee_precision |-> Zero,
     swap_rate_precision |-> Zero, paused |-> FALSE]
NoRedeemerConfig ==
    [owner |-> DefaultPubkey, relayer_fee_precision |-> Zero,
     swap_rate_precision |-> Zero, fee_recipient |-> DefaultPubkey]
NoOwnerConfig ==
    [owner |-> DefaultPubkey, assistant |-> DefaultPubkey, pending_owner |-> NoKey]

\* What an instruction reports: its name, how it ended, and for the
\* instructions that move value, who called it and what was moved.
NoEffect ==
    [vaa |-> 0, payer |-> DefaultPubkey, recipient |-> DefaultPubkey,
     to_recipient |-> Zero, to_fee_recipient |-> Zero,
     native_to_recipient |-> Zero, native_to_payer |-> Zero,
     posted |-> FALSE, sequence |-> 0, mint |-> "", amount |-> Zero,
     target_relayer_fee |-> Zero, to_native_token_amount |-> Zero,
     token_amount_in |-> Zero, steps |-> << >>]
Outcome(op, result) == [op |-> op, result |-> result, effect |-> NoEffect]

\* No calculator call is being examined.
NoCalc ==
    [fn |-> "", args |-> "", decimals |-> 0, fee |-> Zero, swap_rate |-> Zero,
     precision |-> Zero, sol_swap_rate |-> Zero,
     max_native_swap_amount |-> Zero, to_native_token_amount |-> Zero,
     result |-> None]

\* The value initialize stores as both precisions of both configs.
initial_precision == BigPow10(8)

\* How initialize ends: the init constraints of the three config accounts,
\* the handler's require!, and the loader's check of the signer in
\* set_upgrade_authority, which the handler invokes last.
initialize_result(signer, fee_recipient, assistant) ==
    IF initialized THEN "AccountAlreadyInUse"
    ELSE IF ~(fee_recipient # DefaultPubkey /\ assistant # DefaultPubkey)
    THEN "InvalidPublicKey"
    ELSE IF upgrade_authority = NoKey THEN "Immutable"
    ELSE IF upgrade_authority # signer THEN "IncorrectAuthority"
    ELSE "Ok"

\* initialize: creates the three config accounts with the signer as owner,
\* then makes the program immutable by setting its upgrade authority to
\* None. When the loader refuses that call the instruction fails and no
\* account is created.
initialize(signer, fee_recipient, assistant) ==
    LET result == initialize_result(signer, fee_recipient, assistant)
    IN  /\ last' = Outcome("initialize", result)
        /\ IF result = "Ok"
           THEN /\ initialized' = TRUE
                /\ sender_config' =
                       [owner |-> signer,
                        relayer_fee_precision |-> initial_precision,
                        swap_rate_precision |-> initial_precision,
                        paused |-> FALSE]
                /\ redeemer_config' =
                       [owner |-> signer,
                        relayer_fee_precision |-> initial_precision,
                        swap_rate_precision |-> initial_precision,
                        fee_recipient |-> fee_recipient]
                /\ owner_config' =
                       [owner |-> signer, assistant |-> assistant,
                        pending_owner |-> NoKey]
                /\ upgrade_authority' = NoKey
           ELSE UNCHANGED << initialized, sender_config, redeemer_config,
                             owner_config, upgrade_authority >>
        /\ UNCHANGED << calc, overflow_checks, registered_tokens, foreign_contracts,
                        signer_sequence, posted_vaas, claimed >>

\* A variant of the context without the has_one = owner constraint.
ManageOwnershipAnySigner(signer) ==
    IF ~initialized THEN "AccountNotInitialized" ELSE "Ok"

\* Account validation of the ManageOwnership context.
ManageOwnership(signer) ==
    IF ~initialized THEN "AccountNotInitialized"
    ELSE IF owner_config.owner # signer THEN "OwnerOnly"
    ELSE "Ok"

\* A variant that accepts the current owner as the new owner.
submit_without_owner_check(signer, new_owner) ==
    IF ManageOwnership(signer) # "Ok" THEN ManageOwnership(signer)
    ELSE IF new_owner = DefaultPubkey THEN "InvalidPublicKey"
    ELSE "Ok"

submit_ownership_transfer_request_result(signer, new_owner) ==
    IF ManageOwnership(signer) # "Ok" THEN ManageOwnership(signer)
    ELSE IF new_owner = DefaultPubkey THEN "InvalidPublicKey"
    ELSE IF new_owner = owner_config.owner THEN "AlreadyTheOwner"
    ELSE "Ok"

\* A variant that keeps a request already pending.
submit_keeping_pending_request(signer, new_owner) ==
    LET result == submit_ownership_transfer_request_result(signer, new_owner)
    IN  /\ last' = Outcome("submit_ownership_transfer_request", result)
        /\ owner_config' = IF result = "Ok" /\ owner_config.pending_owner = NoKey
                           THEN [owner_config EXCEPT !.pending_owner = new_owner]
                           ELSE owner_config
        /\ UNCHANGED << calc, overflow_checks, upgrade_authority, initialized, sender_config,
                        redeemer_config, registered_tokens, foreign_contracts,
                        signer_sequence, posted_vaas, claimed >>

submit_ownership_transfer_request(signer, new_owner) ==
    LET result == submit_ownership_transfer_request_result(signer, new_owner)
    IN  /\ last' = Outcome("submit_ownership_transfer_request", result)
        /\ owner_config' = IF result = "Ok"
                           THEN [owner_config EXCEPT !.pending_owner = new_owner]
                           ELSE owner_config
        /\ UNCHANGED << calc, overflow_checks, upgrade_authority, initialized, sender_config,
                        redeemer_config, registered_tokens, foreign_contracts,
                        signer_sequence, posted_vaas, claimed >>

confirm_ownership_transfer_request_result(signer) ==
    IF ~initialized THEN "AccountNotInitialized"
    ELSE IF ~is_pending_owner(owner_config, signer) THEN "NotPendingOwner"
    ELSE "Ok"

\* A variant that leaves RedeemerConfig.owner behind.
confirm_without_redeemer_config(signer) ==
    LET result == confirm_ownership_transfer_request_result(signer)
    IN  /\ last' = Outcome("confirm_ownership_transfer_request", result)
        /\ IF result = "Ok"
           THEN /\ sender_config' = [sender_config EXCEPT !.owner = signer]
                /\ owner_config' = [owner_config EXCEPT !.owner = signer,
                                                        !.pending_owner = NoKey]
           ELSE UNCHANGED << sender_config, owner_config >>
        /\ UNCHANGED << calc, overflow_checks, upgrade_authority, initialized, redeemer_config,
                        registered_tokens, foreign_contracts, signer_sequence,
                        posted_vaas, claimed >>

confirm_ownership_transfer_request(signer) ==
    LET result == confirm_ownership_transfer_request_result(signer)
    IN  /\ last' = Outcome("confirm_ownership_transfer_request", result)
        /\ IF result = "Ok"
           THEN /\ sender_config' = [sender_config EXCEPT !.owner = signer]
                /\ redeemer_config' = [redeemer_config EXCEPT !.owner = signer]
                /\ owner_config' = [owner_config EXCEPT !.owner = signer,
                                                        !.pending_owner = NoKey]
           ELSE UNCHANGED << sender_config, redeemer_config, owner_config >>
        /\ UNCHANGED << calc, overflow_checks, upgrade_authority, initialized, registered_tokens,
                        foreign_contracts, signer_sequence, posted_vaas,
                        claimed >>

cancel_ownership_transfer_request(signer) ==
    LET result == ManageOwnership(signer)
    IN  /\ last' = Outcome("cancel_ownership_transfer_request", result)
        /\ owner_config' = IF result = "Ok"
                           THEN [owner_config EXCEPT !.pending_owner = NoKey]
                           ELSE owner_config
        /\ UNCHANGED << calc, overflow_checks, upgrade_authority, initialized, sender_config,
                        redeemer_config, registered_tokens, foreign_contracts,
                        signer_sequence, posted_vaas, claimed >>

update_assistant_result(signer, new_assistant) ==
    IF ManageOwnership(signer) # "Ok" THEN ManageOwnership(signer)
    ELSE IF new_assistant = DefaultPubkey THEN "InvalidPublicKey"
    ELSE IF new_assistant = owner_config.assistant THEN "AlreadyTheAssistant"
    ELSE "Ok"

update_assistant(signer, new_assistant) ==
    LET result == update_assistant_result(signer, new_assistant)
    IN  /\ last' = Outcome("update_assistant", result)
        /\ owner_config' = IF result = "Ok"
                           THEN [owner_config EXCEPT !.assistant = new_assistant]
                           ELSE owner_config
        /\ UNCHANGED << calc, overflow_checks, upgrade_authority, initialized, sender_config,
                        redeemer_config, registered_tokens, foreign_contracts,
                        signer_sequence, posted_vaas, claimed >>

-----------------------------------------------------------------------------
\* A variant that lets the assistant pass as well.
SenderConfigOwnerOrAssistant(signer) ==
    IF ~initialized THEN "AccountNotInitialized"
    ELSE IF sender_config.owner # signer /\ owner_config.assistant # signer
    THEN "OwnerOnly"
    ELSE "Ok"

\* Account validation of the contexts that compare the signer with the owner
\* stored in SenderConfig (has_one = owner).
SenderConfigOwner(signer) ==
    IF ~initialized THEN "AccountNotInitialized"
    ELSE IF sender_config.owner # signer THEN "OwnerOnly"
    ELSE "Ok"

\* ... and with the owner stored in RedeemerConfig.
RedeemerConfigOwner(signer) ==
    IF ~initialized THEN "AccountNotInitialized"
    ELSE IF redeemer_config.owner # signer THEN "OwnerOnly"
    ELSE "Ok"

set_pause_for_transfers(signer, paused) ==
    LET result == SenderConfigOwner(signer)
    IN  /\ last' = Outcome("set_pause_for_transfers", result)
        /\ sender_config' = IF result = "Ok"
                            THEN [sender_config EXCEPT !.paused = paused]
                            ELSE sender_config
        /\ UNCHANGED << calc, overflow_checks, upgrade_authority, initialized, redeemer_config,
                        owner_config, registered_tokens, foreign_contracts,
                        signer_sequence, posted_vaas, claimed >>

update_fee_recipient_result(signer, new_fee_recipient) ==
    IF RedeemerConfigOwner(signer) # "Ok" THEN RedeemerConfigOwner(signer)
    ELSE IF new_fee_recipient = DefaultPubkey THEN "InvalidPublicKey"
    ELSE IF new_fee_recipient = redeemer_config.fee_recipient
    THEN "AlreadyTheFeeRecipient"
    ELSE "Ok"

update_fee_recipient(signer, new_fee_recipient) ==
    LET result == update_fee_recipient_result(signer, new_fee_recipient)
    IN  /\ last' = Outcome("update_fee_recipient", result)
        /\ redeemer_config' =
               IF result = "Ok"
               THEN [redeemer_config EXCEPT !.fee_recipient = new_fee_recipient]
               ELSE redeemer_config
        /\ UNCHANGED << calc, overflow_checks, upgrade_authority, initialized, sender_config,
                        owner_config, registered_tokens, foreign_contracts,
                        signer_sequence, posted_vaas, claimed >>

\* Account validation of UpdatePrecision: has_one = owner on both configs.
UpdatePrecision(signer) ==
    IF RedeemerConfigOwner(signer) # "Ok" THEN RedeemerConfigOwner(signer)
    ELSE SenderConfigOwner(signer)

update_precision_result(signer, precision) ==
    IF UpdatePrecision(signer) # "Ok" THEN UpdatePrecision(signer)
    ELSE IF ~BigGt(precision, Zero) THEN "InvalidPrecision"
    ELSE "Ok"

\* A variant that leaves SenderConfig behind.
update_relayer_fee_precision_of_redeemer(signer, relayer_fee_precision) ==
    LET result == update_precision_result(signer, relayer_fee_precision)
    IN  /\ last' = Outcome("update_relayer_fee_precision", result)
        /\ redeemer_config' =
               IF result = "Ok"
               THEN [redeemer_config EXCEPT
                        !.relayer_fee_precision = relayer_fee_precision]
               ELSE redeemer_config
        /\ UNCHANGED << calc, overflow_checks, upgrade_authority, initialized, sender_config,
                        owner_config, registered_tokens, foreign_contracts,
                        signer_sequence, posted_vaas, claimed >>

update_relayer_fee_precision(signer, relayer_fee_precision) ==
    LET result == update_precision_result(signer, relayer_fee_precision)
    IN  /\ last' = Outcome("update_relayer_fee_precision", result)
        /\ IF result = "Ok"
           THEN /\ redeemer_config' =
                       [redeemer_config EXCEPT
                            !.relayer_fee_precision = relayer_fee_precision]
                /\ sender_config' =
                       [sender_config EXCEPT
                            !.relayer_fee_precision = relayer_fee_precision]
           ELSE UNCHANGED << redeemer_config, sender_config >>
        /\ UNCHANGED << calc, overflow_checks, upgrade_authority, initialized, owner_config,
                        registered_tokens, foreign_contracts, signer_sequence,
                        posted_vaas, claimed >>

update_swap_rate_precision(signer, swap_rate_precision) ==
    LET result == update_precision_result(signer, swap_rate_precision)
    IN  /\ last' = Outcome("update_swap_rate_precision", result)
        /\ IF result = "Ok"
           THEN /\ redeemer_config' =
                       [redeemer_config EXCEPT
                            !.swap_rate_precision = swap_rate_precision]
                /\ sender_config' =
                       [sender_config EXCEPT
                            !.swap_rate_precision = swap_rate_precision]
           ELSE UNCHANGED << redeemer_config, sender_config >>
        /\ UNCHANGED << calc, overflow_checks, upgrade_authority, initialized, owner_config,
                        registered_tokens, foreign_contracts, signer_sequence,
                        posted_vaas, claimed >>

-----------------------------------------------------------------------------
\* Mints known to the model: the native mint (wrapped SOL), a token minted on
\* Solana, and a Token Bridge wrapped token of a foreign asset.
native_mint == "native_mint"
Mints == { native_mint, "spl_mint", "wrapped_mint" }

\* Mint::decimals of each mint.
mint_decimals(mint) ==
    CASE mint = native_mint -> 9
      [] mint = "spl_mint" -> 10
      [] OTHER -> 8

\* The chain a mint's asset is native to (Token Bridge wrapped metadata);
\* CHAIN_ID_SOLANA for the mints created on Solana.
CHAIN_ID_SOLANA == 1
mint_token_chain(mint) == IF mint = "wrapped_mint" THEN 2 ELSE CHAIN_ID_SOLANA

\* RegisteredToken account data before the account is created.
NoRegisteredToken ==
    [exists |-> FALSE, swap_rate |-> Zero, max_native_swap_amount |-> Zero,
     is_registered |-> FALSE]

\* Account validation loads the accounts that must exist, then runs the init
\* constraint of registered_token, then has_one = owner; the handler's
\* require! follow.
register_token_result(signer, mint, swap_rate, max_native_swap_amount) ==
    IF ~initialized THEN "AccountNotInitialized"
    ELSE IF registered_tokens[mint].exists THEN "AccountAlreadyInUse"
    ELSE IF sender_config.owner # signer THEN "OwnerOnly"
    ELSE IF ~BigGt(swap_rate, Zero) THEN "ZeroSwapRate"
    ELSE IF ~(mint # native_mint \/ BigIsZero(max_native_swap_amount))
    THEN "SwapsNotAllowedForNativeMint"
    ELSE "Ok"

register_token(signer, mint, swap_rate, max_native_swap_amount) ==
    LET result == register_token_result(signer, mint, swap_rate,
                                        max_native_swap_amount)
    IN  /\ last' = Outcome("register_token", result)
        /\ registered_tokens' =
               IF result = "Ok"
               THEN [registered_tokens EXCEPT ![mint] =
                        [exists |-> TRUE, swap_rate |-> swap_rate,
                         max_native_swap_amount |-> max_native_swap_amount,
                         is_registered |-> TRUE]]
               ELSE registered_tokens
        /\ UNCHANGED << calc, overflow_checks, upgrade_authority, initialized, sender_config,
                        redeemer_config, owner_config, foreign_contracts,
                        signer_sequence, posted_vaas, claimed >>

\* Account validation loads config and registered_token before it checks
\* has_one = owner.
deregister_token_result(signer, mint) ==
    IF ~initialized \/ ~registered_tokens[mint].exists
    THEN "AccountNotInitialized"
    ELSE IF sender_config.owner # signer THEN "OwnerOnly"
    ELSE "Ok"

\* A variant that zeroes the account instead of closing it.
deregister_token_keeping_account(signer, mint) ==
    LET result == deregister_token_result(signer, mint)
    IN  /\ last' = Outcome("deregister_token", result)
        /\ registered_tokens' =
               IF result = "Ok"
               THEN [registered_tokens EXCEPT ![mint] =
                        [exists |-> TRUE, swap_rate |-> Zero,
                         max_native_swap_amount |-> Zero,
                         is_registered |-> FALSE]]
               ELSE registered_tokens
        /\ UNCHANGED << calc, overflow_checks, upgrade_authority, initialized, sender_config,
                        redeemer_config, owner_config, foreign_contracts,
                        signer_sequence, posted_vaas, claimed >>

deregister_token(signer, mint) ==
    LET result == deregister_token_result(signer, mint)
    IN  /\ last' = Outcome("deregister_token", result)
        /\ registered_tokens' =
               IF result = "Ok"
               THEN [registered_tokens EXCEPT ![mint] = NoRegisteredToken]
               ELSE registered_tokens
        /\ UNCHANGED << calc, overflow_checks, upgrade_authority, initialized, sender_config,
                        redeemer_config, owner_config, foreign_contracts,
                        signer_sequence, posted_vaas, claimed >>

\* A variant that accepts a rate of zero.
update_swap_rate_accepting_zero(signer, mint, swap_rate) ==
    IF ~initialized \/ ~registered_tokens[mint].exists
    THEN "AccountNotInitialized"
    ELSE IF ~is_authorized(owner_config, signer) THEN "OwnerOrAssistantOnly"
    ELSE "Ok"

update_swap_rate_result(signer, mint, swap_rate) ==
    IF ~initialized \/ ~registered_tokens[mint].exists
    THEN "AccountNotInitialized"
    ELSE IF ~is_authorized(owner_config, signer) THEN "OwnerOrAssistantOnly"
    ELSE IF ~BigGt(swap_rate, Zero) THEN "ZeroSwapRate"
    ELSE "Ok"

update_swap_rate(signer, mint, swap_rate) ==
    LET result == update_swap_rate_result(signer, mint, swap_rate)
    IN  /\ last' = Outcome("update_swap_rate", result)
        /\ registered_tokens' =
               IF result = "Ok"
               THEN [registered_tokens EXCEPT ![mint].swap_rate = swap_rate]
               ELSE registered_tokens
        /\ UNCHANGED << calc, overflow_checks, upgrade_authority, initialized, sender_config,
                        redeemer_config, owner_config, foreign_contracts,
                        signer_sequence, posted_vaas, claimed >>

\* A variant without the native mint check.
update_max_native_swap_amount_for_any_mint(signer, mint, max_native_swap_amount) ==
    IF ~initialized \/ ~registered_tokens[mint].exists
    THEN "AccountNotInitialized"
    ELSE IF sender_config.owner # signer THEN "OwnerOnly"
    ELSE "Ok"

update_max_native_swap_amount_result(signer, mint, max_native_swap_amount) ==
    IF ~initialized \/ ~registered_tokens[mint].exists
    THEN "AccountNotInitialized"
    ELSE IF sender_config.owner # signer THEN "OwnerOnly"
    ELSE IF ~(mint # native_mint \/ BigIsZero(max_native_swap_amount))
    THEN "SwapsNotAllowedForNativeMint"
    ELSE "Ok"

update_max_native_swap_amount(signer, mint, max_native_swap_amount) ==
    LET result == update_max_native_swap_amount_result(signer, mint,
                                                       max_native_swap_amount)
    IN  /\ last' = Outcome("update_max_native_swap_amount", result)
        /\ registered_tokens' =
               IF result = "Ok"
               THEN [registered_tokens EXCEPT
                        ![mint].max_native_swap_amount = max_native_swap_amount]
               ELSE registered_tokens
        /\ UNCHANGED << calc, overflow_checks, upgrade_authority, initialized, sender_config,
                        redeemer_config, owner_config, foreign_contracts,
                        signer_sequence, posted_vaas, claimed >>

-----------------------------------------------------------------------------
\* The two bytes of a u16 chain id, as used in account seeds.
to_be_bytes(chain) == << chain \div 256, chain % 256 >>
to_le_bytes(chain) == << chain % 256, chain \div 256 >>

\* Chain ids and 32-byte addresses the model draws from; address 0 stands for
\* the all-zero address.
Chains == { 0, CHAIN_ID_SOLANA, 2, 257, 512 }
ZeroAddress == 0
SeedBytes == { to_be_bytes(c) : c \in Chains } \cup { to_le_bytes(c) : c \in Chains }

\* The Token Bridge's EndpointRegistration account of a chain.
endpoint_registration(chain) == 1000 + chain

\* ForeignContract account data before the account is created.
NoForeignContract ==
    [exists |-> FALSE, chain |-> 0, address |-> ZeroAddress,
     token_bridge_foreign_endpoint |-> DefaultPubkey, fee |-> Zero]

\* A variant without the comparison with Solana's chain id.
valid_foreign_address_on_any_chain(chain, address) ==
    chain # 0 /\ address # ZeroAddress

\* utils::valid_foreign_address
valid_foreign_address(chain, address) ==
    chain # 0 /\ chain # CHAIN_ID_SOLANA /\ address # ZeroAddress

register_foreign_contract_result(signer, chain, address) ==
    IF SenderConfigOwner(signer) # "Ok" THEN SenderConfigOwner(signer)
    ELSE IF ~valid_foreign_address(chain, address) THEN "InvalidForeignContract"
    ELSE "Ok"

\* A variant that creates the account and never overwrites it.
register_foreign_contract_once(signer, chain, address, fee) ==
    LET result == register_foreign_contract_result(signer, chain, address)
    IN  /\ last' = Outcome("register_foreign_contract", result)
        /\ foreign_contracts' =
               IF result = "Ok" /\ ~foreign_contracts[to_be_bytes(chain)].exists
               THEN [foreign_contracts EXCEPT ![to_be_bytes(chain)] =
                        [exists |-> TRUE, chain |-> chain, address |-> address,
                         token_bridge_foreign_endpoint |->
                             endpoint_registration(chain),
                         fee |-> fee]]
               ELSE foreign_contracts
        /\ UNCHANGED << calc, overflow_checks, upgrade_authority, initialized, sender_config,
                        redeemer_config, owner_config, registered_tokens,
                        signer_sequence, posted_vaas, claimed >>

\* register_foreign_contract: the account lives at seeds
\* [b"foreign_contract", chain.to_be_bytes()] and is created if needed.
register_foreign_contract(signer, chain, address, fee) ==
    LET result == register_foreign_contract_result(signer, chain, address)
    IN  /\ last' = Outcome("register_foreign_contract", result)
        /\ foreign_contracts' =
               IF result = "Ok"
               THEN [foreign_contracts EXCEPT ![to_be_bytes(chain)] =
                        [exists |-> TRUE, chain |-> chain, address |-> address,
                         token_bridge_foreign_endpoint |->
                             endpoint_registration(chain),
                         fee |-> fee]]
               ELSE foreign_contracts
        /\ UNCHANGED << calc, overflow_checks, upgrade_authority, initialized, sender_config,
                        redeemer_config, owner_config, registered_tokens,
                        signer_sequence, posted_vaas, claimed >>

update_relayer_fee_result(signer, chain) ==
    IF ~initialized \/ ~foreign_contracts[to_be_bytes(chain)].exists
    THEN "AccountNotInitialized"
    ELSE IF ~is_authorized(owner_config, signer) THEN "OwnerOrAssistantOnly"
    ELSE "Ok"

update_relayer_fee(signer, chain, fee) ==
    LET result == update_relayer_fee_result(signer, chain)
    IN  /\ last' = Outcome("update_relayer_fee", result)
        /\ foreign_contracts' =
               IF result = "Ok"
               THEN [foreign_contracts EXCEPT ![to_be_bytes(chain)].fee = fee]
               ELSE foreign_contracts
        /\ UNCHANGED << calc, overflow_checks, upgrade_authority, initialized, sender_config,
                        redeemer_config, owner_config, registered_tokens,
                        signer_sequence, posted_vaas, claimed >>

-----------------------------------------------------------------------------
\* Loading the accounts of an outbound context: SenderConfig, the
\* ForeignContract at seeds [b"foreign_contract", recipient_chain.to_be_bytes()]
\* and the RegisteredToken of the mint. The accounts handed on to the Token
\* Bridge (in the wrapped context its wrapped-asset metadata) are unchecked
\* here, so both contexts load the same accounts.
LoadTransferAccounts(mint, recipient_chain, wrapped) ==
    IF ~initialized THEN "AccountNotInitialized"
    ELSE IF ~foreign_contracts[to_be_bytes(recipient_chain)].exists
    THEN "AccountNotInitialized"
    ELSE IF ~registered_tokens[mint].exists THEN "AccountNotInitialized"
    ELSE "Ok"

\* A variant of the contexts without the constraint on the pause flag.
TransferAccountsWithoutPause(mint, recipient_chain, wrapped) ==
    LoadTransferAccounts(mint, recipient_chain, wrapped)

\* Account validation of TransferNativeWithRelay and TransferWrappedWithRelay:
\* the accounts are loaded, then the constraint !config.paused is evaluated.
TransferAccounts(mint, recipient_chain, wrapped) ==
    IF LoadTransferAccounts(mint, recipient_chain, wrapped) # "Ok"
    THEN LoadTransferAccounts(mint, recipient_chain, wrapped)
    ELSE IF ~(~sender_config.paused) THEN "OutboundTransfersPaused"
    ELSE "Ok"

\* The relayer fee of a transfer in token units, as prepare_transfer computes
\* it from the ForeignContract of the recipient chain.
transfer_relayer_fee(mint, recipient_chain) ==
    checked_token_fee(foreign_contracts[to_be_bytes(recipient_chain)].fee,
                      mint_decimals(mint),
                      registered_tokens[mint].swap_rate,
                      sender_config.relayer_fee_precision)

\* The sum prepare_transfer compares the normalized amount with.
transfer_required(mint, to_native_token_amount, recipient_chain) ==
    u64_add(normalize_amount(to_native_token_amount, mint_decimals(mint)),
            normalize_amount(transfer_relayer_fee(mint, recipient_chain),
                             mint_decimals(mint)))

\* prepare_transfer: how it ends. On "Ok" the message carries the normalized
\* relayer fee, the normalized to-native amount and the recipient.
prepare_transfer(mint, amount, to_native_token_amount, recipient_chain, recipient) ==
    LET decimals == mint_decimals(mint)
        normalized_to_native_amount ==
            normalize_amount(to_native_token_amount, decimals)
        required == transfer_required(mint, to_native_token_amount,
                                      recipient_chain)
    IN  IF ~valid_foreign_address(recipient_chain, recipient)
        THEN "InvalidRecipient"
        ELSE IF ~(BigIsZero(to_native_token_amount)
                  \/ BigGt(normalized_to_native_amount, Zero))
        THEN "InvalidToNativeAmount"
        ELSE IF ~IsSome(transfer_relayer_fee(mint, recipient_chain))
        THEN "FeeCalculationError"
        ELSE IF required = Panic THEN "ProgramFailedToComplete"
        ELSE IF ~BigGt(normalize_amount(amount, decimals), required)
        THEN "InsufficientFunds"
        ELSE "Ok"

\* a sequence that hands out its value without advancing
take_and_keep(value) == [seq |-> value, value |-> value]

\* SignerSequence::take_and_uptick: the value used, and the value stored after.
take_and_uptick(value) == [seq |-> value, value |-> value + 1]

\* How often a payer's sequence is advanced in the model.
MaxSequence == 2

\* A statement of a handler: the errors it can end the instruction with, and
\* whether it changes an account when it succeeds.
Step(name, raises, mutates) ==
    [name |-> name, raises |-> raises, mutates |-> mutates]

\* The statements of prepare_transfer in the order of the code.
prepare_transfer_steps ==
    << Step("require valid_foreign_address", { "InvalidRecipient" }, FALSE),
       Step("require normalized_to_native_amount > 0",
            { "InvalidToNativeAmount" }, FALSE),
       Step("checked_token_fee", { "FeeCalculationError" }, FALSE),
       Step("require amount > to_native_amount + relayer_fee",
            { "InsufficientFunds", "ProgramFailedToComplete" }, FALSE),
       Step("token::approve", { }, TRUE) >>

\* The statements of transfer_native_tokens_with_relay in the order of the
\* code; the payer's tokens (lamports, with wrap_native) move first.
transfer_native_tokens_with_relay_steps(wrap_native) ==
    << Step("require truncated_amount > 0", { "ZeroBridgeAmount" }, FALSE) >>
    \o (IF wrap_native
        THEN << Step("require mint == native_mint",
                     { "NativeMintRequired" }, FALSE),
                Step("system_program::transfer",
                     { "InsufficientBalance" }, TRUE),
                Step("token::sync_native", { }, TRUE) >>
        ELSE << Step("token::transfer", { "InsufficientBalance" }, TRUE) >>)
    \o prepare_transfer_steps
    \o << Step("take_and_uptick", { }, TRUE),
          Step("token_bridge::transfer_native_with_payload",
               { "TokenBridgeRejected" }, TRUE),
          Step("token::close_account", { }, TRUE) >>

\* The statements of transfer_wrapped_tokens_with_relay in the order of the
\* code.
transfer_wrapped_tokens_with_relay_steps ==
    << Step("token::transfer", { "InsufficientBalance" }, TRUE) >>
    \o prepare_transfer_steps
    \o << Step("take_and_uptick", { }, TRUE),
          Step("token_bridge::transfer_wrapped_with_payload",
               { "TokenBridgeRejected" }, TRUE),
          Step("token::close_account", { }, TRUE) >>

\* The statements a handler executed before it ended with result: all of
\* them on "Ok", those up to the one that raised the error otherwise, none
\* when the error came from account validation, before the handler.
steps_taken(steps, result) ==
    IF result = "Ok" THEN steps
    ELSE IF \A i \in 1..Len(steps) : result \notin steps[i].raises THEN << >>
    ELSE SubSeq(steps, 1,
                CHOOSE i \in 1..Len(steps) :
                    /\ result \in steps[i].raises
                    /\ \A j \in 1..(i - 1) : result \notin steps[j].raises)


\* The outcome record of a transfer that got as far as the comparison of
\* prepare_transfer: the amount and the two normalized amounts compared with
\* it, and, when the message was posted, the sequence it was posted under.
TransferOutcome(op, result, payer, mint, amount, to_native_token_amount, recipient_chain) ==
    [op |-> op, result |-> result,
     effect |-> [NoEffect EXCEPT
        !.payer = payer, !.mint = mint,
        !.posted = (result = "Ok"),
        !.sequence = IF result = "Ok"
                     THEN take_and_uptick(signer_sequence[payer]).seq
                     ELSE 0,
        !.amount = amount,
        !.target_relayer_fee =
            normalize_amount(transfer_relayer_fee(mint, recipient_chain),
                             mint_decimals(mint)),
        !.to_native_token_amount =
            normalize_amount(to_native_token_amount, mint_decimals(mint))]]

\* The Token Bridge takes native transfers of tokens minted on Solana only.
transfer_native_tokens_with_relay_result(mint, funds, amount, to_native_token_amount, recipient_chain, recipient, wrap_native) ==
    LET truncated_amount == truncate_amount(amount, mint_decimals(mint))
    IN  IF TransferAccounts(mint, recipient_chain, FALSE) # "Ok"
        THEN TransferAccounts(mint, recipient_chain, FALSE)
        ELSE IF ~BigGt(truncated_amount, Zero) THEN "ZeroBridgeAmount"
        ELSE IF wrap_native /\ mint # native_mint THEN "NativeMintRequired"
        ELSE IF BigGt(truncated_amount, funds) THEN "InsufficientBalance"
        ELSE IF prepare_transfer(mint, truncated_amount,
                                 to_native_token_amount, recipient_chain,
                                 recipient) # "Ok"
        THEN prepare_transfer(mint, truncated_amount, to_native_token_amount,
                              recipient_chain, recipient)
        ELSE IF mint_token_chain(mint) # CHAIN_ID_SOLANA
        THEN "TokenBridgeRejected"
        ELSE "Ok"

\* transfer_native_tokens_with_relay: the payer's tokens (or lamports, with
\* wrap_native) go to the temporary account, prepare_transfer validates, the
\* Token Bridge posts the message under the payer's sequence. A failure at
\* any point undoes the whole transaction.
transfer_native_tokens_with_relay(payer, mint, funds, amount, to_native_token_amount, recipient_chain, recipient, wrap_native) ==
    LET result == transfer_native_tokens_with_relay_result(
                      mint, funds, amount, to_native_token_amount,
                      recipient_chain, recipient, wrap_native)
    IN  /\ signer_sequence[payer] < MaxSequence
        /\ last' = [(IF result \in { "Ok", "InsufficientFunds" }
                     THEN TransferOutcome(
                              "transfer_native_tokens_with_relay", result,
                              payer, mint,
                              truncate_amount(amount, mint_decimals(mint)),
                              to_native_token_amount, recipient_chain)
                     ELSE Outcome("transfer_native_tokens_with_relay", result))
                    EXCEPT !.effect.steps =
                        steps_taken(
                            transfer_native_tokens_with_relay_steps(wrap_native),
                            result)]
        /\ signer_sequence' =
               IF result = "Ok"
               THEN [signer_sequence EXCEPT ![payer] =
                        take_and_uptick(signer_sequence[payer]).value]
               ELSE signer_sequence
        /\ UNCHANGED << calc, overflow_checks, upgrade_authority, initialized, sender_config,
                        redeemer_config, owner_config, registered_tokens,
                        foreign_contracts, posted_vaas, claimed >>

\* The Token Bridge takes wrapped transfers only of mints it has
\* wrapped-asset metadata for, the mints of tokens of other chains.
transfer_wrapped_tokens_with_relay_result(mint, funds, amount, to_native_token_amount, recipient_chain, recipient) ==
    IF TransferAccounts(mint, recipient_chain, TRUE) # "Ok"
    THEN TransferAccounts(mint, recipient_chain, TRUE)
    ELSE IF BigGt(amount, funds) THEN "InsufficientBalance"
    ELSE IF prepare_transfer(mint, amount, to_native_token_amount,
                             recipient_chain, recipient) # "Ok"
    THEN prepare_transfer(mint, amount, to_native_token_amount,
                          recipient_chain, recipient)
    ELSE IF mint_token_chain(mint) = CHAIN_ID_SOLANA
    THEN "TokenBridgeRejected"
    ELSE "Ok"

transfer_wrapped_tokens_with_relay(payer, mint, funds, amount, to_native_token_amount, recipient_chain, recipient) ==
    LET result == transfer_wrapped_tokens_with_relay_result(
                      mint, funds, amount, to_native_token_amount,
                      recipient_chain, recipient)
    IN  /\ signer_sequence[payer] < MaxSequence
        /\ last' = [(IF result \in { "Ok", "InsufficientFunds" }
                     THEN TransferOutcome(
                              "transfer_wrapped_tokens_with_relay", result,
                              payer, mint, amount, to_native_token_amount,
                              recipient_chain)
                     ELSE Outcome("transfer_wrapped_tokens_with_relay", result))
                    EXCEPT !.effect.steps =
                        steps_taken(transfer_wrapped_tokens_with_relay_steps,
                                    result)]
        /\ signer_sequence' =
               IF result = "Ok"
               THEN [signer_sequence EXCEPT ![payer] =
                        take_and_uptick(signer_sequence[payer]).value]
               ELSE signer_sequence
        /\ UNCHANGED << calc, overflow_checks, upgrade_authority, initialized, sender_config,
                        redeemer_config, owner_config, registered_tokens,
                        foreign_contracts, posted_vaas, claimed >>

-----------------------------------------------------------------------------
\* Messages the bridge has attested and posted for this program. A posted
\* message carries the emitter chain, the sender (from_address), the redeemer
\* (to), the target chain, the token, and the payload of the relayer: the
\* relayer fee, the to-native amount (all amounts in the 8-decimal wire
\* representation) and the recipient.
Vaa(emitter_chain, from_address, to, to_chain, mint, amount, fee, to_native, recipient) ==
    [emitter_chain |-> emitter_chain, from_address |-> from_address,
     to |-> to, to_chain |-> to_chain, mint |-> mint, amount |-> amount,
     target_relayer_fee |-> fee, to_native_token_amount |-> to_native,
     recipient |-> recipient]

\* The messages of the model: well-formed ones for each kind of mint, one
\* whose fee is the largest 64-bit number, two whose fee exceeds the amount,
\* and one for each way of failing the account constraints.
Vaas ==
    << Vaa(257, 7, "config", CHAIN_ID_SOLANA, "spl_mint",
           BigPow10(6), BigPow10(4), Zero, 2),
       Vaa(257, 7, "config", CHAIN_ID_SOLANA, "spl_mint",
           BigPow10(6), BigPow10(4), BigPow10(3), 2),
       Vaa(257, 7, "config", CHAIN_ID_SOLANA, native_mint,
           BigPow10(6), BigPow10(4), BigPow10(3), 2),
       Vaa(257, 7, "config", CHAIN_ID_SOLANA, "wrapped_mint",
           BigPow10(6), U64_MAX, << 5 >>, 2),
       Vaa(257, 7, "program_id", CHAIN_ID_SOLANA, "wrapped_mint",
           BigPow10(6), BigPow10(4), BigPow10(3), 2),
       Vaa(257, 8, "config", CHAIN_ID_SOLANA, "wrapped_mint",
           BigPow10(6), BigPow10(4), Zero, 2),
       Vaa(2, 7, "config", CHAIN_ID_SOLANA, "spl_mint",
           BigPow10(6), BigPow10(4), Zero, 2),
       Vaa(257, 7, "other", CHAIN_ID_SOLANA, "spl_mint",
           BigPow10(6), BigPow10(4), Zero, 2),
       Vaa(257, 7, "config", 2, "spl_mint",
           BigPow10(6), BigPow10(4), Zero, 2),
       Vaa(257, 7, "config", CHAIN_ID_SOLANA, "spl_mint",
           << 100 >>, << 200 >>, Zero, 2),
       Vaa(257, 7, "config", CHAIN_ID_SOLANA, native_mint,
           << 100 >>, << 200 >>, Zero, 2) >>
VaaIds == DOMAIN Vaas

\* How many of them are posted in one behaviour.
MaxVaas == 1

\* A variant of verify that compares the chain only.
verify_chain_only(fc, vaa) == vaa.emitter_chain = fc.chain

\* ForeignContract::verify
verify(fc, vaa) ==
    vaa.emitter_chain = fc.chain /\ vaa.from_address = fc.address

\* Loading the accounts of a redemption context: RedeemerConfig, the posted
\* message, the ForeignContract at seeds
\* [b"foreign_contract", vaa.emitter_chain().to_le_bytes()], the mint (an SPL
\* mint at the message's token address in the native context, the Token
\* Bridge's wrapped mint of the message's token in the wrapped context), the
\* RegisteredToken of the mint and the RegisteredToken of the native mint.
LoadCompleteAccounts(id, wrapped) ==
    IF ~initialized THEN "AccountNotInitialized"
    ELSE IF id \notin posted_vaas THEN "AccountNotInitialized"
    ELSE IF ~foreign_contracts[to_le_bytes(Vaas[id].emitter_chain)].exists
    THEN "AccountNotInitialized"
    ELSE IF wrapped # (mint_token_chain(Vaas[id].mint) # CHAIN_ID_SOLANA)
    THEN "AccountNotInitialized"
    ELSE IF ~registered_tokens[Vaas[id].mint].exists
    THEN "AccountNotInitialized"
    ELSE IF ~registered_tokens[native_mint].exists
    THEN "AccountNotInitialized"
    ELSE "Ok"

\* Account validation of CompleteNativeWithRelay and CompleteWrappedWithRelay:
\* the accounts are loaded, then the constraints are evaluated in the order
\* of the fields. The caller passes the Token Bridge's endpoint registration
\* of the emitter chain.
CompleteAccounts(id, wrapped) ==
    LET vaa == Vaas[id]
        foreign_contract == foreign_contracts[to_le_bytes(vaa.emitter_chain)]
    IN  IF LoadCompleteAccounts(id, wrapped) # "Ok"
        THEN LoadCompleteAccounts(id, wrapped)
        ELSE IF ~verify(foreign_contract, vaa) THEN "InvalidForeignContract"
        ELSE IF ~(vaa.to = "program_id" \/ vaa.to = "config")
        THEN "InvalidTransferToAddress"
        ELSE IF ~(vaa.to_chain = CHAIN_ID_SOLANA)
        THEN "InvalidTransferToChain"
        ELSE IF wrapped # (mint_token_chain(vaa.mint) # CHAIN_ID_SOLANA)
        THEN "InvalidTransferTokenChain"
        ELSE IF wrapped
                /\ endpoint_registration(vaa.emitter_chain)
                       # foreign_contract.token_bridge_foreign_endpoint
        THEN "InvalidTokenBridgeForeignEndpoint"
        ELSE "Ok"

\* What a redemption paid: tokens to the recipient and to the fee recipient,
\* lamports from the payer to the recipient, lamports of an unwrapped
\* temporary account to the payer, and the tokens the swap took.
Payments(result, to_recipient, to_fee_recipient, native_to_recipient, native_to_payer, token_amount_in) ==
    [result |-> result, to_recipient |-> to_recipient,
     to_fee_recipient |-> to_fee_recipient,
     native_to_recipient |-> native_to_recipient,
     native_to_payer |-> native_to_payer,
     token_amount_in |-> token_amount_in]

\* A failed transaction pays nothing.
Failed(result) == Payments(result, Zero, Zero, Zero, Zero, Zero)

\* A variant of the check that takes every claim account for empty.
claim_always_empty(id) == TRUE

\* token_bridge_claim.data_is_empty()
claim_is_empty(id) == id \notin claimed

\* Bridge collaborator, complete_transfer_{native,wrapped}_with_payload: it
\* rejects a message whose claim account exists; otherwise it creates the
\* claim account and pays the denormalized amount into the temporary account.
token_bridge_complete_transfer(id) ==
    IF id \in claimed THEN "TokenBridgeRejected" ELSE "Ok"

token_bridge_claim(id) == claimed \cup { id }

\* A variant that treats every payer as a relayer.
never_self_redemption(payer, recipient) == FALSE

\* payer.key() == recipient.key()
is_self_redemption(payer, recipient) == payer = recipient

\* The token payments of a relayed redemption once the swap is computed:
\* the lamports of the swap from the payer to the recipient, then
\* amount_for_fee_recipient to the fee recipient and the rest to the
\* recipient. The temporary account holds `amount`; a token transfer of more
\* than it holds fails, and so does a lamport transfer of more than the payer
\* holds.
pay_relayed(amount, token_amount_in, native_amount_out, amount_for_fee_recipient, payer_lamports) ==
    IF BigGt(native_amount_out, payer_lamports)
    THEN Failed("InsufficientLamports")
    ELSE IF amount_for_fee_recipient = Panic
    THEN Failed("ProgramFailedToComplete")
    ELSE IF BigGt(amount_for_fee_recipient, amount)
    THEN Failed("InsufficientTokens")
    ELSE Payments("Ok", u64_sub(amount, amount_for_fee_recipient),
                  amount_for_fee_recipient, native_amount_out, Zero,
                  token_amount_in)

\* A relayed redemption given the result of calculate_native_swap_amounts.
relay_tokens(amount, denormalized_relayer_fee, swap, payer_lamports) ==
    IF swap = Panic THEN Failed("ProgramFailedToComplete")
    ELSE IF swap = None THEN Failed("InvalidSwapCalculation")
    ELSE pay_relayed(amount, swap[1], swap[2],
                     u64_add(swap[1], denormalized_relayer_fee),
                     payer_lamports)

\* The swap of a relayed redemption, from the denormalized to-native amount.
redeem_swap(mint, denormalized_to_native_token_amount) ==
    IF denormalized_to_native_token_amount = Panic THEN Panic
    ELSE calculate_native_swap_amounts(
             registered_tokens[mint], mint_decimals(mint),
             registered_tokens[native_mint].swap_rate,
             redeemer_config.swap_rate_precision,
             denormalized_to_native_token_amount)

\* The payments of a redemption of tokens that stay tokens: everything to the
\* recipient in a self redemption; otherwise the swap, the swapped tokens
\* plus the relayer fee to the fee recipient and the rest to the recipient.
redeem_tokens(mint, amount, denormalized_relayer_fee, to_native_token_amount, payer, recipient, payer_lamports) ==
    IF is_self_redemption(payer, recipient)
    THEN Payments("Ok", amount, Zero, Zero, Zero, Zero)
    ELSE relay_tokens(
             amount, denormalized_relayer_fee,
             redeem_swap(mint, denormalize_amount(to_native_token_amount,
                                                  mint_decimals(mint))),
             payer_lamports)

\* The lamports a relayer sends on to the recipient of wrapped SOL, out of
\* its own lamports and those of the closed temporary account.
relay_wrapped_sol(amount, lamports_for_recipient, payer_lamports) ==
    IF lamports_for_recipient = Panic THEN Failed("ProgramFailedToComplete")
    ELSE IF BigGt(lamports_for_recipient, BigAdd(payer_lamports, amount))
    THEN Failed("InsufficientLamports")
    ELSE Payments("Ok", Zero, Zero, lamports_for_recipient, amount, Zero)

\* The payments of a redemption of wrapped SOL: the temporary account is
\* closed and its lamports go to the payer; a relayer then sends
\* amount - denormalized_relayer_fee lamports on to the recipient.
redeem_wrapped_sol(amount, denormalized_relayer_fee, payer, recipient, payer_lamports) ==
    IF ~(payer # recipient)
    THEN Payments("Ok", Zero, Zero, Zero, amount, Zero)
    ELSE relay_wrapped_sol(amount,
                           u64_sub(amount, denormalized_relayer_fee),
                           payer_lamports)

\* The checks both redemption handlers start with, up to the bridge's
\* completion of the transfer and the two denormalizations.
redeem_checks(id, recipient) ==
    IF ~claim_is_empty(id) THEN "AlreadyRedeemed"
    ELSE IF ~registered_tokens[Vaas[id].mint].is_registered
    THEN "TokenNotRegistered"
    ELSE IF ~(recipient = Vaas[id].recipient) THEN "InvalidRecipient"
    ELSE IF token_bridge_complete_transfer(id) # "Ok"
    THEN "TokenBridgeRejected"
    ELSE IF denormalize_amount(Vaas[id].amount,
                               mint_decimals(Vaas[id].mint)) = Panic
            \/ denormalize_amount(Vaas[id].target_relayer_fee,
                                  mint_decimals(Vaas[id].mint)) = Panic
    THEN "ProgramFailedToComplete"
    ELSE "Ok"

\* The payments of the native handler after its checks.
redeem_native(vaa, payer, recipient, payer_lamports) ==
    IF vaa.mint = native_mint
    THEN redeem_wrapped_sol(
             denormalize_amount(vaa.amount, mint_decimals(vaa.mint)),
             denormalize_amount(vaa.target_relayer_fee,
                                mint_decimals(vaa.mint)),
             payer, recipient, payer_lamports)
    ELSE redeem_tokens(
             vaa.mint,
             denormalize_amount(vaa.amount, mint_decimals(vaa.mint)),
             denormalize_amount(vaa.target_relayer_fee,
                                mint_decimals(vaa.mint)),
             vaa.to_native_token_amount, payer, recipient, payer_lamports)

\* The payments of the wrapped handler after its checks.
redeem_wrapped(vaa, payer, recipient, payer_lamports) ==
    redeem_tokens(
        vaa.mint,
        denormalize_amount(vaa.amount, mint_decimals(vaa.mint)),
        denormalize_amount(vaa.target_relayer_fee, mint_decimals(vaa.mint)),
        vaa.to_native_token_amount, payer, recipient, payer_lamports)

\* How a handler ends given the results of its account validation and of
\* its checks, and the payments it would make after them.
redeem_result(accounts, checks, pay) ==
    IF accounts # "Ok" THEN Failed(accounts)
    ELSE IF checks # "Ok" THEN Failed(checks)
    ELSE pay

\* complete_native_transfer_with_relay: how it ends and what it pays.
complete_native_transfer_with_relay_result(id, payer, recipient, payer_lamports) ==
    redeem_result(CompleteAccounts(id, FALSE), redeem_checks(id, recipient),
                  redeem_native(Vaas[id], payer, recipient, payer_lamports))

\* complete_wrapped_transfer_with_relay: how it ends and what it pays.
complete_wrapped_transfer_with_relay_result(id, payer, recipient, payer_lamports) ==
    redeem_result(CompleteAccounts(id, TRUE), redeem_checks(id, recipient),
                  redeem_wrapped(Vaas[id], payer, recipient, payer_lamports))

\* The outcome record of a redemption: the message, the payer, the recipient
\* account passed, the denormalized amount and the payments made.
RedeemOutcome(op, id, payer, recipient, pay) ==
    [op |-> op, result |-> pay.result,
     effect |-> [NoEffect EXCEPT
        !.vaa = id, !.payer = payer, !.recipient = recipient,
        !.mint = Vaas[id].mint,
        !.amount = IF pay.result = "Ok"
                   THEN denormalize_amount(Vaas[id].amount,
                                           mint_decimals(Vaas[id].mint))
                   ELSE Zero,
        !.to_recipient = pay.to_recipient,
        !.to_fee_recipient = pay.to_fee_recipient,
        !.native_to_recipient = pay.native_to_recipient,
        !.native_to_payer = pay.native_to_payer,
        !.token_amount_in = pay.token_amount_in]]

\* A redemption as a transaction: on success the bridge has set the claim
\* and the payments are made; a failure at any point undoes everything. The
\* outcome names the message once the accounts of the context were loaded.
redeem_transaction(op, id, payer, recipient, pay) ==
    /\ last' = IF pay.result = "AccountNotInitialized"
               THEN Outcome(op, pay.result)
               ELSE RedeemOutcome(op, id, payer, recipient, pay)
    /\ claimed' = IF pay.result = "Ok" THEN token_bridge_claim(id)
                  ELSE claimed
    /\ UNCHANGED << calc, overflow_checks, upgrade_authority, initialized, sender_config,
                    redeemer_config, owner_config, registered_tokens,
                    foreign_contracts, signer_sequence, posted_vaas >>

complete_native_transfer_with_relay(id, payer, recipient, payer_lamports) ==
    /\ redeem_transaction("complete_native_transfer_with_relay", id, payer,
                          recipient,
                          complete_native_transfer_with_relay_result(
                              id, payer, recipient, payer_lamports))

complete_wrapped_transfer_with_relay(id, payer, recipient, payer_lamports) ==
    /\ redeem_transaction("complete_wrapped_transfer_with_relay", id, payer,
                          recipient,
                          complete_wrapped_transfer_with_relay_result(
                              id, payer, recipient, payer_lamports))

-----------------------------------------------------------------------------
\* The program before initialize: no account exists. Messages the bridge has
\* attested are part of the environment and are fixed at the start.
InitAccounts ==
    /\ overflow_checks \in BOOLEAN
    /\ initialized = FALSE
    /\ sender_config = NoSenderConfig
    /\ redeemer_config = NoRedeemerConfig
    /\ owner_config = NoOwnerConfig
    /\ registered_tokens = [m \in Mints |-> NoRegisteredToken]
    /\ foreign_contracts = [b \in SeedBytes |-> NoForeignContract]
    /\ signer_sequence = [k \in Keys |-> 0]
    /\ claimed = {}
    /\ last = Outcome("", "")

\* Keys that can sign a transaction (the all-zero key has no private key).
Signers == Keys \ { DefaultPubkey }

\* The key that deployed the program and is its upgrade authority.
Deployer == 1

\* The deployed program before initialize.
InitProgram == InitAccounts /\ upgrade_authority = Deployer

\* Precisions (u32) and amounts (u64) the administrative instructions are
\* called with.
PrecisionInputs == { Zero, BigPow10(6) }
SwapRateInputs == { Zero, BigPow10(8) }

\* Ownership and configuration instructions, with the registry reduced to one
\* mint and one chain, and the fee recipient and the assistant drawn from two
\* keys each.
NextAdmin ==
    \/ \E s \in Signers, f \in { DefaultPubkey, 2 }, a \in { DefaultPubkey, 2 } :
           initialize(s, f, a)
    \/ \E s \in Signers, k \in Keys : submit_ownership_transfer_request(s, k)
    \/ \E s \in Signers : confirm_ownership_transfer_request(s)
    \/ \E s \in Signers : cancel_ownership_transfer_request(s)
    \/ \E s \in Signers, k \in { DefaultPubkey, 1 } : update_assistant(s, k)
    \/ \E s \in Signers, b \in BOOLEAN : set_pause_for_transfers(s, b)
    \/ \E s \in Signers, k \in { DefaultPubkey, 1 } : update_fee_recipient(s, k)
    \/ \E s \in Signers, p \in PrecisionInputs :
           update_relayer_fee_precision(s, p)
    \/ \E s \in Signers, p \in PrecisionInputs :
           update_swap_rate_precision(s, p)
    \/ \E s \in Signers, r \in SwapRateInputs :
           register_token(s, native_mint, r, Zero)
    \/ \E s \in Signers : deregister_token(s, native_mint)
    \/ \E s \in Signers, c \in { 0, 257 }, a \in { ZeroAddress, 7 } :
           register_foreign_contract(s, c, a, BigPow10(6))
    \/ \E s \in Signers : update_relayer_fee(s, 257, BigPow10(6))
    \/ \E s \in Signers, r \in SwapRateInputs :
           update_swap_rate(s, native_mint, r)
    \/ \E s \in Signers, x \in { Zero, BigPow10(9) } :
           update_max_native_swap_amount(s, native_mint, x)

\* Any signer may have deployed the program.
InitAdmin ==
    /\ InitAccounts
    /\ upgrade_authority \in Signers
    /\ posted_vaas = {}
    /\ calc = NoCalc

SpecAdmin == InitAdmin /\ [][NextAdmin]_vars

\* Amounts an outbound transfer is called with. With the fee of TransferFee
\* and a swap rate of 10^8 the relayer fee is 10^6 in normalized units.
TransferFee == BigPow10(6)
TransferAmounts ==
    { Zero, << 5 >>, BigPow10(6), BigAdd(BigPow10(6), One), BigPow10(7),
      BigAdd(BigPow10(7), << 10 >>) }
ToNativeAmounts == { Zero, << 5 >>, U64_MAX }

\* The payer's balance, the recipient chain, the recipient address and the
\* wrap_native flag of the calls: one good combination and one for each way
\* of getting one of them wrong.
TransferCalls ==
    { << U64_MAX, 2, 8, FALSE >>, << Zero, 2, 8, FALSE >>,
      << U64_MAX, 257, 8, FALSE >>, << U64_MAX, 2, ZeroAddress, FALSE >>,
      << U64_MAX, 2, 8, TRUE >> }
TransferMints == { native_mint, "wrapped_mint" }

\* Outbound transfers by one payer, with the instructions that configure
\* what they read.
NextTransfer ==
    \/ initialize(1, 3, 3)
    \/ \E s \in { 1, 2 }, b \in BOOLEAN : set_pause_for_transfers(s, b)
    \/ \E m \in TransferMints : register_token(1, m, BigPow10(8), Zero)
    \/ register_foreign_contract(1, 2, 7, TransferFee)
    \/ \E m \in TransferMints, a \in TransferAmounts, n \in ToNativeAmounts,
          c \in TransferCalls :
           transfer_native_tokens_with_relay(2, m, c[1], a, n, c[2], c[3], c[4])
    \/ \E m \in TransferMints, a \in TransferAmounts, n \in ToNativeAmounts,
          c \in TransferCalls :
           transfer_wrapped_tokens_with_relay(2, m, c[1], a, n, c[2], c[3])

SpecTransfer == InitAdmin /\ [][NextTransfer]_vars

\* The payer, the recipient account passed and the payer's lamports of the
\* redemption calls: the recipient itself, a relayer with and without
\* lamports, and a relayer passing another recipient account.
RedeemCalls ==
    { << 2, 2, Zero >>, << 3, 2, BigPow10(9) >>, << 3, 2, Zero >>,
      << 3, 3, BigPow10(9) >> }

\* Swap rates and native swap limits the tokens are registered with.
NativeSwapRate == BigMulSmall(BigPow10(8), 2)
MaxNativeSwapAmounts == { Zero, BigPow10(9) }

\* Redemptions of the posted messages, with the instructions that configure
\* what they read.
NextRedeem ==
    \/ initialize(1, 1, 1)
    \/ register_token(1, native_mint, NativeSwapRate, Zero)
    \/ \E m \in Mints \ { native_mint }, x \in MaxNativeSwapAmounts :
           register_token(1, m, BigPow10(8), x)
    \/ \E c \in { 257, 512 }, a \in { 7, 8 } :
           register_foreign_contract(1, c, a, Zero)
    \/ \E id \in VaaIds, c \in RedeemCalls :
           complete_native_transfer_with_relay(id, c[1], c[2], c[3])
    \/ \E id \in VaaIds, c \in RedeemCalls :
           complete_wrapped_transfer_with_relay(id, c[1], c[2], c[3])

InitRedeem ==
    /\ InitProgram
    /\ posted_vaas \in { S \in SUBSET VaaIds : Cardinality(S) = MaxVaas }
    /\ calc = NoCalc

SpecRedeem == InitRedeem /\ [][NextRedeem]_vars

-----------------------------------------------------------------------------
\* Swap rates, relayer fees, chains and addresses the registry instructions
\* are called with.
RegistryRates == { Zero, BigPow10(8), NativeSwapRate }
RegistryFees == { Zero, BigPow10(6) }
RegistryChains == { 0, CHAIN_ID_SOLANA, 2, 257 }
RegistryAddresses == { ZeroAddress, 7, 8 }
RegistryMints == { native_mint, "spl_mint" }

\* The token and foreign contract registries under an owner (1), an
\* assistant (2) and a third key.
NextRegistry ==
    \/ initialize(1, 2, 2)
    \/ \E s \in { 1, 3 }, m \in RegistryMints, r \in RegistryRates,
          x \in MaxNativeSwapAmounts :
           register_token(s, m, r, x)
    \/ \E s \in { 1, 3 }, m \in RegistryMints : deregister_token(s, m)
    \/ \E s \in Signers, m \in RegistryMints, r \in RegistryRates :
           update_swap_rate(s, m, r)
    \/ \E s \in { 1, 3 }, m \in RegistryMints, x \in MaxNativeSwapAmounts :
           update_max_native_swap_amount(s, m, x)
    \/ \E s \in { 1, 3 }, c \in RegistryChains, a \in RegistryAddresses,
          f \in RegistryFees :
           register_foreign_contract(s, c, a, f)
    \/ \E s \in Signers, c \in RegistryChains, f \in RegistryFees :
           update_relayer_fee(s, c, f)

SpecRegistry == InitAdmin /\ [][NextRegistry]_vars


\* Arguments of the fee calculator: the decimals of the unit tests and the
\* ends of the range of mints in use, then the exponents around the largest
\* power of ten that fits 128 bits (10^38) and the largest u8.
FeeDecimals == { 0, 8, 9, 10, 18, 38, 39, 128, 255 }
FeeAmounts == { Zero, << 5 >>, BigMulSmall(BigPow10(9), 42), U64_MAX }
FeeSwapRates ==
    { Zero, One, BigPow10(6), BigMulSmall(BigPow10(8), 69), BigPow10(14),
      U64_MAX }
FeePrecisions == { Zero, One, BigPow10(8), U32_MAX }
FeeArgs ==
    { [NoCalc EXCEPT !.args = "fee", !.decimals = d, !.fee = f,
                     !.swap_rate = r, !.precision = p] :
          d \in FeeDecimals, f \in FeeAmounts, r \in FeeSwapRates,
          p \in FeePrecisions }

\* Arguments of the swap calculator.
SwapDecimals == { 0, 8, 9, 10, 18, 47, 48, 255 }
SwapRates == { Zero, One, BigPow10(8), U64_MAX }
SolSwapRates == { Zero, NativeSwapRate, U64_MAX }
SwapPrecisions == { Zero, BigPow10(8), U32_MAX }
SwapLimits == { Zero, BigPow10(9), U64_MAX }
SwapAmounts == { Zero, BigPow10(3), U64_MAX }
SwapArgs ==
    { [NoCalc EXCEPT !.args = "swap", !.decimals = d, !.swap_rate = r,
                     !.sol_swap_rate = s, !.precision = p,
                     !.max_native_swap_amount = x,
                     !.to_native_token_amount = n] :
          d \in SwapDecimals, r \in SwapRates, s \in SolSwapRates,
          p \in SwapPrecisions, x \in SwapLimits, n \in SwapAmounts }

\* The calls of the unit test test_calculate_native_swap_amounts that end in
\* zero amounts or in the capped amount.
UnitTestSwapArgs ==
    { [NoCalc EXCEPT !.args = "swap", !.decimals = 10,
                     !.swap_rate = BigPow10(9),
                     !.sol_swap_rate = BigMulSmall(BigPow10(9), 42),
                     !.precision = BigPow10(8),
                     !.max_native_swap_amount = x,
                     !.to_native_token_amount = n] :
          x \in { Zero, BigPow10(9), BigPow10(10) },
          n \in { Zero, One, BigPow10(10), BigMulSmall(BigPow10(11), 69) } }

\* A call of ForeignContract::checked_token_fee with the arguments drawn.
call_checked_token_fee ==
    /\ calc.fn = "" /\ calc.args = "fee"
    /\ calc' = [calc EXCEPT
                    !.fn = "ForeignContract::checked_token_fee",
                    !.result = checked_token_fee(calc.fee, calc.decimals,
                                                 calc.swap_rate,
                                                 calc.precision)]
    /\ UNCHANGED << overflow_checks, upgrade_authority, initialized, sender_config,
                    redeemer_config, owner_config, registered_tokens,
                    foreign_contracts, signer_sequence, posted_vaas, claimed,
                    last >>

\* A call of RelayerFee::checked_token_fee with the arguments drawn.
call_RelayerFee_checked_token_fee ==
    /\ calc.fn = "" /\ calc.args = "fee"
    /\ calc' = [calc EXCEPT
                    !.fn = "RelayerFee::checked_token_fee",
                    !.result = RelayerFee_checked_token_fee(
                                   calc.fee, calc.decimals, calc.swap_rate,
                                   calc.precision)]
    /\ UNCHANGED << overflow_checks, upgrade_authority, initialized, sender_config,
                    redeemer_config, owner_config, registered_tokens,
                    foreign_contracts, signer_sequence, posted_vaas, claimed,
                    last >>

\* A call of RegisteredToken::calculate_native_swap_amounts with the
\* arguments drawn.
call_calculate_native_swap_amounts ==
    /\ calc.fn = "" /\ calc.args = "swap"
    /\ calc' = [calc EXCEPT
                    !.fn = "RegisteredToken::calculate_native_swap_amounts",
                    !.result = calculate_native_swap_amounts(
                                   [swap_rate |-> calc.swap_rate,
                                    max_native_swap_amount |->
                                        calc.max_native_swap_amount],
                                   calc.decimals, calc.sol_swap_rate,
                                   calc.precision,
                                   calc.to_native_token_amount)]
    /\ UNCHANGED << overflow_checks, upgrade_authority, initialized, sender_config,
                    redeemer_config, owner_config, registered_tokens,
                    foreign_contracts, signer_sequence, posted_vaas, claimed,
                    last >>

NextCalculator ==
    \/ call_checked_token_fee
    \/ call_RelayerFee_checked_token_fee
    \/ call_calculate_native_swap_amounts

InitCalculator ==
    /\ InitProgram
    /\ posted_vaas = {}
    /\ calc \in FeeArgs \cup SwapArgs \cup UnitTestSwapArgs

SpecCalculator == InitCalculator /\ [][NextCalculator]_vars


\* Messages to encode: the unit test's amounts, zero, a value whose low byte
\* is zero and the largest u64; three recipients.
MessageFees == { Zero, BigMulSmall(BigPow10(5), 69), << 256 >>, U64_MAX }
MessageToNativeAmounts == { Zero, BigPow10(8), U64_MAX }
MessageRecipients ==
    { zero_bytes(32), [i \in 1..32 |-> i], [i \in 1..32 |-> 255] }
Messages ==
    { [target_relayer_fee |-> f, to_native_token_amount |-> n,
       recipient |-> r] :
          f \in MessageFees, n \in MessageToNativeAmounts,
          r \in MessageRecipients }

\* Buffers to decode: encodings with one byte replaced at any position, cut
\* short, and extended by their first eight bytes as in the unit test.
ByteValues == { 0, 1, 2, 255 }
BufferMessages ==
    { m \in Messages :
          /\ m.target_relayer_fee \in { BigMulSmall(BigPow10(5), 69), U64_MAX }
          /\ m.to_native_token_amount \in { Zero, BigPow10(8) }
          /\ m.recipient # zero_bytes(32) }
CutLengths == { 0, 1, 25, 96 }
Buffers ==
    { [serialize(m) EXCEPT ![i] = v] :
          m \in BufferMessages, i \in 1..PayloadSize, v \in ByteValues }
    \cup { SubSeq(serialize(m), 1, n) : m \in BufferMessages, n \in CutLengths }
    \cup { serialize(m) \o SubSeq(serialize(m), 1, 8) : m \in BufferMessages }

\* Nothing encoded or decoded yet.
NoMessageCall ==
    [fn |-> "", args |-> "", message |-> NoMessage, buffer |-> << >>,
     result |-> Err(""), encoded |-> << >>]

MessageArgs ==
    { [NoMessageCall EXCEPT !.args = "message", !.message = m] :
          m \in Messages }
    \cup { [NoMessageCall EXCEPT !.args = "buffer", !.buffer = b] :
               b \in Buffers }

\* msg.serialize(&mut encoded)
call_serialize ==
    /\ calc.args = "message" /\ calc.fn = ""
    /\ calc' = [calc EXCEPT !.fn = "serialize",
                            !.buffer = serialize(calc.message)]
    /\ UNCHANGED << overflow_checks, upgrade_authority, initialized, sender_config,
                    redeemer_config, owner_config, registered_tokens,
                    foreign_contracts, signer_sequence, posted_vaas, claimed,
                    last >>

\* TokenBridgeRelayerMessage::deserialize(&mut buffer), of a buffer given or
\* of the bytes just encoded
call_deserialize ==
    /\ \/ calc.args = "buffer" /\ calc.fn = ""
       \/ calc.args = "message" /\ calc.fn = "serialize"
    /\ calc' = [calc EXCEPT
                    !.fn = IF calc.fn = "" THEN "deserialize"
                           ELSE "serialize, deserialize",
                    !.result = deserialize(calc.buffer)]
    /\ UNCHANGED << overflow_checks, upgrade_authority, initialized, sender_config,
                    redeemer_config, owner_config, registered_tokens,
                    foreign_contracts, signer_sequence, posted_vaas, claimed,
                    last >>

\* serialize of the message a buffer decoded to
call_serialize_decoded ==
    /\ calc.args = "buffer" /\ calc.fn = "deserialize" /\ calc.result.ok
    /\ calc' = [calc EXCEPT !.fn = "deserialize, serialize",
                            !.encoded = serialize(calc.result.message)]
    /\ UNCHANGED << overflow_checks, upgrade_authority, initialized, sender_config,
                    redeemer_config, owner_config, registered_tokens,
                    foreign_contracts, signer_sequence, posted_vaas, claimed,
                    last >>

NextMessage ==
    \/ call_serialize
    \/ call_deserialize
    \/ call_serialize_decoded

InitMessage ==
    /\ InitProgram
    /\ posted_vaas = {}
    /\ calc \in MessageArgs

SpecMessage == InitMessage /\ [][NextMessage]_vars


\* Outbound transfers by two payers: for each entry point a call that is
\* accepted, one with too small an amount, one to the zero address and one
\* the payer cannot fund.
SequencePayers == { 2, 3 }
SequenceAmounts == { << 5 >>, BigAdd(BigPow10(7), << 10 >>) }
SequenceCalls ==
    { << U64_MAX, 2, 8, FALSE >>, << Zero, 2, 8, FALSE >>,
      << U64_MAX, 2, ZeroAddress, FALSE >> }

NextSequence ==
    \/ initialize(1, 3, 3)
    \/ \E m \in TransferMints : register_token(1, m, BigPow10(8), Zero)
    \/ register_foreign_contract(1, 2, 7, TransferFee)
    \/ \E p \in SequencePayers, m \in TransferMints, a \in SequenceAmounts,
          c \in SequenceCalls :
           transfer_native_tokens_with_relay(p, m, c[1], a, Zero, c[2], c[3], c[4])
    \/ \E p \in SequencePayers, m \in TransferMints, a \in SequenceAmounts,
          c \in SequenceCalls :
           transfer_wrapped_tokens_with_relay(p, m, c[1], a, Zero, c[2], c[3])

SpecSequence == InitAdmin /\ [][NextSequence]_vars


\* Ownership transfers in which key 3 is proposed only while a request for
\* another key is pending, and the other keys only while none is: a state in
\* which key 3 is pending, or has confirmed, follows two submits in a row.
FirstProposals == Keys \ { 3 }
NextOwnership ==
    \/ initialize(1, 2, 2)
    \/ \E s \in Signers, k \in FirstProposals :
           /\ owner_config.pending_owner = NoKey
           /\ submit_ownership_transfer_request(s, k)
    \/ \E s \in Signers :
           /\ owner_config.pending_owner # NoKey
           /\ submit_ownership_transfer_request(s, 3)
    \/ \E s \in Signers : confirm_ownership_transfer_request(s)
    \/ \E s \in Signers : cancel_ownership_transfer_request(s)
    \/ \E s \in Signers, k \in { DefaultPubkey, 1, 2 } : update_assistant(s, k)
    \/ \E s \in Signers, b \in BOOLEAN : set_pause_for_transfers(s, b)

SpecOwnership == InitAdmin /\ [][NextOwnership]_vars


-----------------------------------------------------------------------------
(* The token registry of the inline handlers of lib.rs, the form of the    *)
(* program in which RegisteredToken carries a swaps_enabled flag and the   *)
(* account stays in place when the token is deregistered.                  *)

\* initialize of lib.rs: both keys must differ from the all-zero key; the
\* signer becomes the owner of the three configs.
inline_initialize(signer, fee_recipient, assistant) ==
    LET result == IF initialized THEN "AccountAlreadyInUse"
                  ELSE IF fee_recipient = DefaultPubkey THEN "InvalidPublicKey"
                  ELSE IF assistant = DefaultPubkey THEN "InvalidPublicKey"
                  ELSE "Ok"
    IN  /\ last' = Outcome("initialize", result)
        /\ IF result = "Ok"
           THEN /\ initialized' = TRUE
                /\ sender_config' =
                       [owner |-> signer,
                        relayer_fee_precision |-> initial_precision,
                        swap_rate_precision |-> initial_precision]
                /\ redeemer_config' =
                       [owner |-> signer,
                        relayer_fee_precision |-> initial_precision,
                        swap_rate_precision |-> initial_precision,
                        fee_recipient |-> fee_recipient]
                /\ owner_config' =
                       [owner |-> signer, assistant |-> assistant,
                        pending_owner |-> NoKey]
           ELSE UNCHANGED << initialized, sender_config, redeemer_config,
                             owner_config >>
        /\ UNCHANGED << calc, overflow_checks, upgrade_authority,
                        registered_tokens, foreign_contracts,
                        signer_sequence, posted_vaas, claimed >>

\* Account validation of the contexts of the inline token instructions: the
\* config exists and the signer is its owner; the RegisteredToken account is
\* created if needed by register_token and must exist for the others.
InlineTokenContext(signer, mint, creates) ==
    IF ~initialized THEN "AccountNotInitialized"
    ELSE IF ~creates /\ ~registered_tokens[mint].exists
    THEN "AccountNotInitialized"
    ELSE IF sender_config.owner # signer THEN "OwnerOnly"
    ELSE "Ok"

\* register_token of lib.rs: how it ends.
inline_register_token_result(signer, mint, swap_rate, max_native_swap_amount) ==
    IF InlineTokenContext(signer, mint, TRUE) # "Ok"
    THEN InlineTokenContext(signer, mint, TRUE)
    ELSE IF ~(~registered_tokens[mint].is_registered)
    THEN "TokenAlreadyRegistered"
    ELSE IF ~BigGt(swap_rate, Zero) THEN "ZeroSwapRate"
    ELSE "Ok"

\* register_token of lib.rs: stores its arguments for any mint.
inline_register_token(signer, mint, swap_rate, max_native_swap_amount, swaps_enabled) ==
    LET result == inline_register_token_result(signer, mint, swap_rate,
                                               max_native_swap_amount)
    IN  /\ last' = Outcome("register_token", result)
        /\ registered_tokens' =
               IF result = "Ok"
               THEN [registered_tokens EXCEPT ![mint] =
                        [exists |-> TRUE, swap_rate |-> swap_rate,
                         max_native_swap_amount |-> max_native_swap_amount,
                         swaps_enabled |-> swaps_enabled,
                         is_registered |-> TRUE]]
               ELSE registered_tokens
        /\ UNCHANGED << calc, overflow_checks, upgrade_authority, initialized, sender_config,
                        redeemer_config, owner_config, foreign_contracts,
                        signer_sequence, posted_vaas, claimed >>

\* The three inline instructions on a registered token: how they end.
inline_manage_token_result(signer, mint) ==
    IF InlineTokenContext(signer, mint, FALSE) # "Ok"
    THEN InlineTokenContext(signer, mint, FALSE)
    ELSE IF ~registered_tokens[mint].is_registered THEN "TokenNotRegistered"
    ELSE "Ok"

\* deregister_token of lib.rs: zeroes the record and keeps the account. It
\* reports an unregistered token as TokenAlreadyRegistered.
inline_deregister_token(signer, mint) ==
    LET result == IF inline_manage_token_result(signer, mint)
                         = "TokenNotRegistered"
                  THEN "TokenAlreadyRegistered"
                  ELSE inline_manage_token_result(signer, mint)
    IN  /\ last' = Outcome("deregister_token", result)
        /\ registered_tokens' =
               IF result = "Ok"
               THEN [registered_tokens EXCEPT ![mint] =
                        [exists |-> TRUE, swap_rate |-> Zero,
                         max_native_swap_amount |-> Zero,
                         swaps_enabled |-> FALSE,
                         is_registered |-> FALSE]]
               ELSE registered_tokens
        /\ UNCHANGED << calc, overflow_checks, upgrade_authority, initialized, sender_config,
                        redeemer_config, owner_config, foreign_contracts,
                        signer_sequence, posted_vaas, claimed >>

\* update_max_native_swap_amount of lib.rs: stores the amount for any mint.
inline_update_max_native_swap_amount(signer, mint, max_native_swap_amount) ==
    LET result == inline_manage_token_result(signer, mint)
    IN  /\ last' = Outcome("update_max_native_swap_amount", result)
        /\ registered_tokens' =
               IF result = "Ok"
               THEN [registered_tokens EXCEPT
                        ![mint].max_native_swap_amount = max_native_swap_amount]
               ELSE registered_tokens
        /\ UNCHANGED << calc, overflow_checks, upgrade_authority, initialized, sender_config,
                        redeemer_config, owner_config, foreign_contracts,
                        signer_sequence, posted_vaas, claimed >>

\* toggle_swaps of lib.rs
inline_toggle_swaps(signer, mint, swaps_enabled) ==
    LET result == inline_manage_token_result(signer, mint)
    IN  /\ last' = Outcome("toggle_swaps", result)
        /\ registered_tokens' =
               IF result = "Ok"
               THEN [registered_tokens EXCEPT
                        ![mint].swaps_enabled = swaps_enabled]
               ELSE registered_tokens
        /\ UNCHANGED << calc, overflow_checks, upgrade_authority, initialized, sender_config,
                        redeemer_config, owner_config, foreign_contracts,
                        signer_sequence, posted_vaas, claimed >>

\* The token registry of lib.rs under an owner (1), an assistant (2) and a
\* third key.
NextInlineRegistry ==
    \/ inline_initialize(1, 2, 2)
    \/ \E s \in { 1, 3 }, m \in RegistryMints, r \in RegistryRates,
          x \in MaxNativeSwapAmounts, e \in BOOLEAN :
           inline_register_token(s, m, r, x, e)
    \/ \E s \in { 1, 3 }, m \in RegistryMints : inline_deregister_token(s, m)
    \/ \E s \in { 1, 3 }, m \in RegistryMints, x \in MaxNativeSwapAmounts :
           inline_update_max_native_swap_amount(s, m, x)
    \/ \E s \in { 1, 3 }, m \in RegistryMints, e \in BOOLEAN :
           inline_toggle_swaps(s, m, e)

SpecInlineRegistry == InitAdmin /\ [][NextInlineRegistry]_vars


\* Everything but the outcome record.
program_state ==
    << upgrade_authority, initialized, sender_config, redeemer_config, owner_config,
       registered_tokens, foreign_contracts, signer_sequence, posted_vaas,
       claimed >>

\* C8: once the program is initialized, whatever administrative and
\* ownership instructions have run, SenderConfig.owner, RedeemerConfig.owner
\* and OwnerConfig.owner are the same key.
C8_OwnersInLockstep ==
    initialized =>
        /\ sender_config.owner = owner_config.owner
        /\ redeemer_config.owner = owner_config.owner

\* An ownership transfer was confirmed: all three owners are the new key.
C8_Witness ==
    /\ last.op = "confirm_ownership_transfer_request"
    /\ last.result = "Ok"
    /\ owner_config.owner = 2
    /\ sender_config.owner = 2
    /\ redeemer_config.owner = 2

\* C9: confirm_ownership_transfer_request succeeds exactly when the signer is
\* the stored pending owner; on success the owner of all three configs is the
\* signer and pending_owner is None after that one step; a confirm by any
\* other key (the current owner included, and any key while pending_owner is
\* None) fails with NotPendingOwner and changes nothing.
C9_ConfirmOnlyByPendingOwner ==
    [][\A s \in Signers :
          (initialized /\ confirm_ownership_transfer_request(s)) =>
              IF owner_config.pending_owner = s
              THEN /\ last'.result = "Ok"
                   /\ sender_config'.owner = s
                   /\ redeemer_config'.owner = s
                   /\ owner_config'.owner = s
                   /\ owner_config'.pending_owner = NoKey
              ELSE /\ last'.result = "NotPendingOwner"
                   /\ UNCHANGED program_state]_vars

\* The current owner tried to confirm a transfer that is pending for another
\* key and was turned away.
C9_Witness ==
    /\ last.op = "confirm_ownership_transfer_request"
    /\ last.result = "NotPendingOwner"
    /\ owner_config.pending_owner \in Signers
    /\ owner_config.owner # owner_config.pending_owner

\* C10: cancel_ownership_transfer_request succeeds only for the current
\* owner; it sets pending_owner to None and leaves the owner of all three
\* configs and the assistant as they were; in the state it leaves, a confirm
\* by any key, the previously pending one included, fails.
C10_CancelClearsPendingOnly ==
    /\ [][\A s \in Signers :
             (initialized /\ cancel_ownership_transfer_request(s)) =>
                 IF owner_config.owner = s
                 THEN /\ last'.result = "Ok"
                      /\ owner_config'.pending_owner = NoKey
                      /\ owner_config'.owner = owner_config.owner
                      /\ owner_config'.assistant = owner_config.assistant
                      /\ UNCHANGED << initialized, sender_config,
                                      redeemer_config, registered_tokens,
                                      foreign_contracts, signer_sequence,
                                      posted_vaas, claimed >>
                      /\ \A k \in Signers :
                             ~is_pending_owner(owner_config', k)
                 ELSE /\ last'.result = "OwnerOnly"
                      /\ UNCHANGED program_state]_vars
    /\ []((last.op = "cancel_ownership_transfer_request" /\ last.result = "Ok")
              => \A k \in Signers :
                     confirm_ownership_transfer_request_result(k)
                         = "NotPendingOwner")

\* The owner cancelled a request: nothing is pending and the configuration
\* written by initialize is intact.
C10_Witness ==
    /\ last.op = "cancel_ownership_transfer_request"
    /\ last.result = "Ok"
    /\ owner_config.pending_owner = NoKey
    /\ owner_config.owner \in Signers
    /\ owner_config.assistant = 2

-----------------------------------------------------------------------------
TransferOps ==
    { "transfer_native_tokens_with_relay", "transfer_wrapped_tokens_with_relay" }

\* Results of a transfer that got as far as the comparison of prepare_transfer.
ReachedComparison ==
    { "Ok", "InsufficientFunds", "ProgramFailedToComplete",
      "TokenBridgeRejected" }

\* The comparison as the specification states it, in unbounded arithmetic:
\* the normalized amount exceeds the normalized to-native amount plus the
\* normalized relayer fee.
StrictExcess(mint, amount, to_native_token_amount, recipient_chain) ==
    BigGt(normalize_amount(amount, mint_decimals(mint)),
          BigAdd(normalize_amount(to_native_token_amount, mint_decimals(mint)),
                 normalize_amount(transfer_relayer_fee(mint, recipient_chain),
                                  mint_decimals(mint))))

\* C6: an outbound transfer (native or wrapped entry point) ends "Ok" only if
\* the normalized amount is strictly greater than the normalized to-native
\* amount plus the normalized relayer fee; a call that gets as far as that
\* comparison with an amount equal to or smaller than the sum ends with
\* InsufficientFunds.
C6_StrictExcessRequired ==
    \A m \in TransferMints, a \in TransferAmounts, n \in ToNativeAmounts,
       c \in TransferCalls :
        LET rn == transfer_native_tokens_with_relay_result(
                      m, c[1], a, n, c[2], c[3], c[4])
            rw == transfer_wrapped_tokens_with_relay_result(
                      m, c[1], a, n, c[2], c[3])
        IN  /\ rn \in ReachedComparison =>
                  IF StrictExcess(m, a, n, c[2])
                  THEN rn # "InsufficientFunds"
                  ELSE rn = "InsufficientFunds"
            /\ rw \in ReachedComparison =>
                  IF StrictExcess(m, a, n, c[2])
                  THEN rw # "InsufficientFunds"
                  ELSE rw = "InsufficientFunds"

\* A transfer was accepted and its message posted although the normalized
\* amount does not exceed the normalized to-native amount plus the fee.
C6_Witness ==
    /\ last.op \in TransferOps
    /\ last.result = "Ok"
    /\ last.effect.posted
    /\ ~BigGt(normalize_amount(last.effect.amount,
                               mint_decimals(last.effect.mint)),
              BigAdd(last.effect.to_native_token_amount,
                     last.effect.target_relayer_fee))

\* The same comparison restricted to calls whose sum fits 64 bits: there the
\* code decides exactly as the specification states.
C6_StrictExcessWithoutOverflow ==
    \A m \in TransferMints, a \in TransferAmounts, n \in ToNativeAmounts,
       c \in TransferCalls :
        LET rn == transfer_native_tokens_with_relay_result(
                      m, c[1], a, n, c[2], c[3], c[4])
            rw == transfer_wrapped_tokens_with_relay_result(
                      m, c[1], a, n, c[2], c[3])
            fits == BigLe(BigAdd(normalize_amount(n, mint_decimals(m)),
                                 normalize_amount(
                                     transfer_relayer_fee(m, c[2]),
                                     mint_decimals(m))),
                          U64_MAX)
        IN  /\ (rn \in ReachedComparison /\ fits) =>
                  IF StrictExcess(m, a, n, c[2])
                  THEN rn # "InsufficientFunds"
                  ELSE rn = "InsufficientFunds"
            /\ (rw \in ReachedComparison /\ fits) =>
                  IF StrictExcess(m, a, n, c[2])
                  THEN rw # "InsufficientFunds"
                  ELSE rw = "InsufficientFunds"

\* C7: while SenderConfig.paused is true every call of either outbound entry
\* point fails, with OutboundTransfersPaused whenever the accounts it names
\* exist, posts no message and leaves the payer's sequence as it was; the
\* flag changes only in a successful set_pause_for_transfers, which only the
\* owner can make; and once the flag is false again a well-formed transfer
\* is accepted.
C7_PausedBlocksTransfers ==
    /\ [](sender_config.paused =>
            \A m \in TransferMints, a \in TransferAmounts,
               n \in ToNativeAmounts, c \in TransferCalls :
                LET rn == transfer_native_tokens_with_relay_result(
                              m, c[1], a, n, c[2], c[3], c[4])
                    rw == transfer_wrapped_tokens_with_relay_result(
                              m, c[1], a, n, c[2], c[3])
                IN  /\ rn # "Ok" /\ rw # "Ok"
                    /\ LoadTransferAccounts(m, c[2], FALSE) = "Ok"
                           => rn = "OutboundTransfersPaused"
                    /\ LoadTransferAccounts(m, c[2], TRUE) = "Ok"
                           => rw = "OutboundTransfersPaused")
    /\ [][(last'.op \in TransferOps /\ sender_config.paused) =>
              /\ last'.result # "Ok"
              /\ ~last'.effect.posted
              /\ UNCHANGED program_state]_vars
    /\ [][sender_config'.paused # sender_config.paused =>
              /\ last'.op = "set_pause_for_transfers"
              /\ last'.result = "Ok"
              /\ \A s \in Signers, b \in BOOLEAN :
                     set_pause_for_transfers(s, b) => s = sender_config.owner]_vars
    /\ []((/\ last.op = "set_pause_for_transfers"
           /\ last.result = "Ok"
           /\ ~sender_config.paused
           /\ LoadTransferAccounts(native_mint, 2, FALSE) = "Ok")
              => transfer_native_tokens_with_relay_result(
                     native_mint, U64_MAX, BigAdd(BigPow10(7), << 10 >>), Zero,
                     2, 8, FALSE) = "Ok")

\* The payer had posted one message; then the owner paused the program and
\* the payer's next transfer was refused.
C7_Witness ==
    /\ sender_config.paused
    /\ last.op \in TransferOps
    /\ last.result = "OutboundTransfersPaused"
    /\ signer_sequence[2] = 1

-----------------------------------------------------------------------------
RedeemOps ==
    { "complete_native_transfer_with_relay",
      "complete_wrapped_transfer_with_relay" }

\* The most recent instruction was a redemption and it succeeded.
Redeemed == last.op \in RedeemOps /\ last.result = "Ok"

\* A wire amount in the units of a mint, in unbounded arithmetic.
exact_denormalized(amount, decimals) ==
    IF decimals > BridgeDecimals
    THEN BigMul(amount, BigPow10(decimals - BridgeDecimals))
    ELSE amount

\* The relayer fee of the message of the most recent redemption, in the
\* units of its mint, in unbounded arithmetic.
last_exact_relayer_fee ==
    exact_denormalized(Vaas[last.effect.vaa].target_relayer_fee,
                       mint_decimals(last.effect.mint))

\* No payment is recorded in the outcome.
NothingPaid(effect) ==
    /\ effect.to_recipient = Zero
    /\ effect.to_fee_recipient = Zero
    /\ effect.native_to_recipient = Zero
    /\ effect.native_to_payer = Zero

\* C1: a redemption succeeds only for a message whose claim does not exist
\* yet, and its success creates the claim; claims are never removed; so at
\* most one attempt per message succeeds. Every attempt on a message whose
\* claim exists, by any payer and through either handler, fails, with
\* AlreadyRedeemed whenever the account validation passes, pays no tokens and
\* no lamports and leaves the program state as it was.
C1_ClaimedMessageNeverRedeemedAgain ==
    /\ [][(last'.op \in RedeemOps /\ last'.result = "Ok") =>
              /\ last'.effect.vaa \notin claimed
              /\ claimed' = claimed \cup { last'.effect.vaa }]_vars
    /\ [][claimed \subseteq claimed']_vars
    /\ [][(last'.op \in RedeemOps /\ last'.effect.vaa \in claimed) =>
              /\ last'.result # "Ok"
              /\ NothingPaid(last'.effect)
              /\ UNCHANGED program_state]_vars
    /\ [](\A id \in claimed, c \in RedeemCalls :
            LET n == complete_native_transfer_with_relay_result(
                         id, c[1], c[2], c[3])
                w == complete_wrapped_transfer_with_relay_result(
                         id, c[1], c[2], c[3])
            IN  /\ n.result # "Ok" /\ n = Failed(n.result)
                /\ w.result # "Ok" /\ w = Failed(w.result)
                /\ CompleteAccounts(id, FALSE) = "Ok"
                       => n.result = "AlreadyRedeemed"
                /\ CompleteAccounts(id, TRUE) = "Ok"
                       => w.result = "AlreadyRedeemed")

\* A second attempt on a redeemed message was refused.
C1_Witness ==
    /\ last.op \in RedeemOps
    /\ last.result = "AlreadyRedeemed"
    /\ last.effect.vaa \in claimed

\* C2: in every successful redemption of tokens that stay tokens the token
\* payments sum to the denormalized amount; in a relayed one the fee
\* recipient's share is token_amount_in plus the denormalized relayer fee as
\* numbers, not modulo 2^64, it does not exceed the amount, and the recipient
\* receives the amount less that share.
C2_PaymentsSumWithoutWrap ==
    (Redeemed /\ last.effect.mint # native_mint) =>
        /\ BigAdd(last.effect.to_recipient, last.effect.to_fee_recipient)
               = last.effect.amount
        /\ last.effect.payer # last.effect.recipient =>
               LET share == BigAdd(last.effect.token_amount_in,
                                   last_exact_relayer_fee)
               IN  /\ BigLe(share, last.effect.amount)
                   /\ last.effect.to_fee_recipient = share
                   /\ last.effect.to_recipient
                          = BigSub(last.effect.amount, share)

\* A relayed redemption succeeded although the swapped tokens plus the
\* relayer fee of the payload exceed the amount.
C2_Witness ==
    /\ Redeemed
    /\ last.effect.mint # native_mint
    /\ last.effect.payer # last.effect.recipient
    /\ BigGt(BigAdd(last.effect.token_amount_in, last_exact_relayer_fee),
             last.effect.amount)

\* What the recipient of the most recent redemption received of the
\* transfer: tokens, or lamports when wrapped SOL was unwrapped by a relayer.
last_received ==
    IF last.effect.mint = native_mint
    THEN last.effect.native_to_recipient
    ELSE last.effect.to_recipient

\* C3: in every successful relayed redemption, of any mint including the
\* native mint, the fee recipient receives token_amount_in plus the
\* denormalized relayer fee and the recipient receives the rest of the
\* amount.
C3_FeeRecipientPaidOnEveryPath ==
    (Redeemed /\ last.effect.payer # last.effect.recipient) =>
        LET share == BigAdd(last.effect.token_amount_in,
                            last_exact_relayer_fee)
        IN  /\ last.effect.to_fee_recipient = share
            /\ BigLe(share, last.effect.amount)
            /\ last_received = BigSub(last.effect.amount, share)

\* A relayer redeemed wrapped SOL with a relayer fee in the payload and the
\* fee recipient received nothing: the payer kept the fee.
C3_Witness ==
    /\ Redeemed
    /\ last.effect.mint = native_mint
    /\ last.effect.payer # last.effect.recipient
    /\ BigGt(last_exact_relayer_fee, Zero)
    /\ last.effect.to_fee_recipient = Zero
    /\ last.effect.native_to_recipient
           = BigSub(last.effect.amount, last_exact_relayer_fee)

\* C4: a successful redemption whose payer is the recipient pays the
\* recipient the whole denormalized amount (as tokens, or as the lamports of
\* the closed temporary account for wrapped SOL), pays the fee recipient
\* nothing and swaps nothing, whatever fee and to-native amount the payload
\* carries and however the tokens are registered.
C4_SelfRedemptionPaysFullAmount ==
    (Redeemed /\ last.effect.payer = last.effect.recipient) =>
        /\ last.effect.amount
               = exact_denormalized(Vaas[last.effect.vaa].amount,
                                    mint_decimals(last.effect.mint))
        /\ last.effect.to_fee_recipient = Zero
        /\ last.effect.native_to_recipient = Zero
        /\ last.effect.token_amount_in = Zero
        /\ IF last.effect.mint = native_mint
           THEN /\ last.effect.native_to_payer = last.effect.amount
                /\ last.effect.to_recipient = Zero
           ELSE /\ last.effect.to_recipient = last.effect.amount
                /\ last.effect.native_to_payer = Zero

\* The recipient redeemed a message that carries a relayer fee and a
\* to-native amount, for a token registered with swaps enabled.
C4_Witness ==
    /\ Redeemed
    /\ last.effect.payer = last.effect.recipient
    /\ last.effect.mint # native_mint
    /\ BigGt(Vaas[last.effect.vaa].target_relayer_fee, Zero)
    /\ BigGt(Vaas[last.effect.vaa].to_native_token_amount, Zero)
    /\ BigGt(registered_tokens[last.effect.mint].max_native_swap_amount, Zero)
    /\ last.effect.to_recipient = last.effect.amount

\* The ForeignContract account a redemption of message id reads.
redeem_foreign_contract(id) ==
    foreign_contracts[to_le_bytes(Vaas[id].emitter_chain)]

\* C5: a redemption succeeds only if the ForeignContract account it reads
\* for the message's emitter chain stores that chain and the message's
\* sender, and only if the recipient account passed is the recipient of the
\* payload. When the account stores another chain or sender the redemption
\* fails with InvalidForeignContract; when the accounts validate, the
\* message is unclaimed and the recipient account differs, it fails with
\* InvalidRecipient; a failed redemption pays nothing and changes no state.
C5_OnlyRegisteredSenderAndDeclaredRecipient ==
    /\ [](Redeemed =>
            /\ redeem_foreign_contract(last.effect.vaa).exists
            /\ redeem_foreign_contract(last.effect.vaa).chain
                   = Vaas[last.effect.vaa].emitter_chain
            /\ redeem_foreign_contract(last.effect.vaa).address
                   = Vaas[last.effect.vaa].from_address
            /\ last.effect.recipient = Vaas[last.effect.vaa].recipient)
    /\ [](\A id \in posted_vaas, c \in RedeemCalls, wrapped \in BOOLEAN :
            LET r == IF wrapped
                     THEN complete_wrapped_transfer_with_relay_result(
                              id, c[1], c[2], c[3])
                     ELSE complete_native_transfer_with_relay_result(
                              id, c[1], c[2], c[3])
            IN  /\ (/\ LoadCompleteAccounts(id, wrapped) = "Ok"
                    /\ \/ redeem_foreign_contract(id).chain
                              # Vaas[id].emitter_chain
                       \/ redeem_foreign_contract(id).address
                              # Vaas[id].from_address)
                       => r.result = "InvalidForeignContract"
                /\ (/\ CompleteAccounts(id, wrapped) = "Ok"
                    /\ id \notin claimed
                    /\ c[2] # Vaas[id].recipient)
                       => r.result = "InvalidRecipient"
                /\ r.result # "Ok" => r = Failed(r.result))
    /\ [][(last'.op \in RedeemOps /\ last'.result # "Ok") =>
              /\ NothingPaid(last'.effect)
              /\ UNCHANGED program_state]_vars

\* A message from a sender other than the registered one was refused.
C5_Witness ==
    /\ last.op \in RedeemOps
    /\ last.result = "InvalidForeignContract"
    /\ redeem_foreign_contract(last.effect.vaa).exists
    /\ redeem_foreign_contract(last.effect.vaa).chain
           = Vaas[last.effect.vaa].emitter_chain
    /\ redeem_foreign_contract(last.effect.vaa).address
           # Vaas[last.effect.vaa].from_address

-----------------------------------------------------------------------------
\* C11: in every reachable state a pending owner, when there is one, is
\* neither the all-zero key nor the current owner: the owner's
\* submit_ownership_transfer_request fails with InvalidPublicKey for the
\* all-zero key and with AlreadyTheOwner for the owner's own key, changing
\* nothing, and otherwise stores the key; pending_owner is None before
\* initialize, after initialize and after every successful confirm or cancel.
C11_PendingOwnerIsAnotherKey ==
    /\ [](owner_config.pending_owner # NoKey =>
              /\ owner_config.pending_owner # DefaultPubkey
              /\ owner_config.pending_owner # owner_config.owner)
    /\ [][\A k \in Keys :
             (initialized
                  /\ submit_ownership_transfer_request(owner_config.owner, k))
             => IF k = DefaultPubkey
                THEN last'.result = "InvalidPublicKey"
                         /\ UNCHANGED program_state
                ELSE IF k = owner_config.owner
                THEN last'.result = "AlreadyTheOwner"
                         /\ UNCHANGED program_state
                ELSE last'.result = "Ok"
                         /\ owner_config'.pending_owner = k]_vars
    /\ [](~initialized => owner_config.pending_owner = NoKey)
    /\ []((last.result = "Ok"
               /\ last.op \in { "initialize",
                                "confirm_ownership_transfer_request",
                                "cancel_ownership_transfer_request" })
              => owner_config.pending_owner = NoKey)

\* The owner named another key: it is pending and is not the owner.
C11_Witness ==
    /\ last.op = "submit_ownership_transfer_request"
    /\ last.result = "Ok"
    /\ owner_config.pending_owner \in Signers
    /\ owner_config.pending_owner # owner_config.owner

-----------------------------------------------------------------------------
\* The administrative instructions.
AdminOps ==
    { "submit_ownership_transfer_request", "cancel_ownership_transfer_request",
      "update_assistant", "set_pause_for_transfers", "update_fee_recipient",
      "update_relayer_fee_precision", "update_swap_rate_precision",
      "register_token", "deregister_token", "update_swap_rate",
      "update_max_native_swap_amount", "register_foreign_contract",
      "update_relayer_fee" }

\* Whether some call of an owner-only instruction by the signer would succeed
\* in the current state.
owner_only_call_succeeds(s) ==
    \/ \E m \in Mints, r \in { Zero, BigPow10(8) }, x \in { Zero, BigPow10(9) } :
           register_token_result(s, m, r, x) = "Ok"
    \/ \E m \in Mints : deregister_token_result(s, m) = "Ok"
    \/ \E m \in Mints, x \in { Zero, BigPow10(9) } :
           update_max_native_swap_amount_result(s, m, x) = "Ok"
    \/ \E c \in Chains, a \in { ZeroAddress, 7 } :
           register_foreign_contract_result(s, c, a) = "Ok"
    \/ SenderConfigOwner(s) = "Ok"
    \/ \E p \in { Zero, BigPow10(6) } : update_precision_result(s, p) = "Ok"
    \/ \E k \in Keys : update_fee_recipient_result(s, k) = "Ok"
    \/ \E k \in Keys : update_assistant_result(s, k) = "Ok"
    \/ \E k \in Keys : submit_ownership_transfer_request_result(s, k) = "Ok"
    \/ ManageOwnership(s) = "Ok"

\* Whether some call of update_swap_rate or update_relayer_fee by the signer
\* would succeed in the current state.
assistant_call_succeeds(s) ==
    \/ \E m \in Mints, r \in { Zero, BigPow10(8) } :
           update_swap_rate_result(s, m, r) = "Ok"
    \/ \E c \in Chains : update_relayer_fee_result(s, c) = "Ok"

\* C12: in every reachable state, update_swap_rate and update_relayer_fee can
\* succeed only for a signer that is the owner or the assistant, and every
\* other administrative instruction only for the owner; an administrative
\* instruction that fails leaves every account as it was.
C12_OwnerAndAssistantOnly ==
    /\ [](\A s \in Signers :
              /\ assistant_call_succeeds(s) => is_authorized(owner_config, s)
              /\ owner_only_call_succeeds(s) => is_owner(owner_config, s))
    /\ [][(last'.op \in AdminOps /\ last'.result # "Ok")
              => UNCHANGED program_state]_vars

\* The swap rate was updated in a state where the assistant is not the owner:
\* the assistant may update the rate and the relayer fee, is refused by the
\* owner-only instructions, and a third key is refused by all of them.
C12_Witness ==
    /\ last.op = "update_swap_rate"
    /\ last.result = "Ok"
    /\ owner_config.assistant # owner_config.owner
    /\ update_swap_rate_result(owner_config.assistant, native_mint, BigPow10(8))
           = "Ok"
    /\ update_max_native_swap_amount_result(owner_config.assistant, native_mint,
                                            Zero) = "OwnerOnly"
    /\ \E s \in Signers :
           /\ ~is_authorized(owner_config, s)
           /\ update_swap_rate_result(s, native_mint, BigPow10(8))
                  = "OwnerOrAssistantOnly"
           /\ SenderConfigOwner(s) = "OwnerOnly"

-----------------------------------------------------------------------------
\* The RegisteredToken accounts that exist.
registered_mints == { m \in Mints : registered_tokens[m].exists }

\* C13: in every reachable state every registered token has a swap rate
\* greater than zero: register_token and update_swap_rate fail with
\* ZeroSwapRate for a rate of zero when nothing else is wrong with the call,
\* leaving every account as it was, and a step that changes the swap rate of a
\* token that stays registered is a successful update_swap_rate.
C13_RegisteredTokenHasSwapRate ==
    /\ [](\A m \in registered_mints :
              BigGt(registered_tokens[m].swap_rate, Zero))
    /\ [][\A m \in Mints :
             /\ \A x \in MaxNativeSwapAmounts :
                    (register_token(sender_config.owner, m, Zero, x)
                         /\ initialized /\ m \notin registered_mints)
                    => (last'.result = "ZeroSwapRate"
                            /\ UNCHANGED program_state)
             /\ (update_swap_rate(owner_config.owner, m, Zero)
                     /\ initialized /\ m \in registered_mints)
                => (last'.result = "ZeroSwapRate" /\ UNCHANGED program_state)
             /\ (m \in registered_mints /\ registered_tokens'[m].exists
                     /\ registered_tokens'[m].swap_rate
                            # registered_tokens[m].swap_rate)
                => (last'.op = "update_swap_rate" /\ last'.result = "Ok")]_vars

\* A zero rate was refused for a registered token, whose rate and limit are
\* as they were.
C13_Witness ==
    /\ last.op = "update_swap_rate"
    /\ last.result = "ZeroSwapRate"
    /\ registered_tokens["spl_mint"].exists
    /\ registered_tokens["spl_mint"].swap_rate = NativeSwapRate
    /\ registered_tokens["spl_mint"].max_native_swap_amount = BigPow10(9)

-----------------------------------------------------------------------------
\* The swap limits a token of the mint may be registered with.
allowed_max_native_swap_amounts(m) ==
    IF m = native_mint THEN { Zero } ELSE MaxNativeSwapAmounts

\* C14: for each mint and the owner as signer, while the token is
\* unregistered register_token with valid arguments is accepted and
\* deregister_token, update_swap_rate and update_max_native_swap_amount are
\* refused; while it is registered register_token is refused and the other
\* three are accepted. A successful deregister_token removes the record (no
\* swap rate and no swap limit are left), and a successful register_token,
\* the first or a later one, stores exactly its own arguments.
C14_RegisteredTokenLifecycle ==
    /\ [](initialized =>
          \A m \in Mints : \A x \in allowed_max_native_swap_amounts(m) :
              IF m \in registered_mints
              THEN /\ register_token_result(sender_config.owner, m,
                                            BigPow10(8), x)
                          = "AccountAlreadyInUse"
                   /\ deregister_token_result(sender_config.owner, m) = "Ok"
                   /\ update_swap_rate_result(owner_config.owner, m,
                                              BigPow10(8)) = "Ok"
                   /\ update_max_native_swap_amount_result(
                          sender_config.owner, m, x) = "Ok"
              ELSE /\ register_token_result(sender_config.owner, m,
                                            BigPow10(8), x) = "Ok"
                   /\ deregister_token_result(sender_config.owner, m)
                          = "AccountNotInitialized"
                   /\ update_swap_rate_result(owner_config.owner, m,
                                              BigPow10(8))
                          = "AccountNotInitialized"
                   /\ update_max_native_swap_amount_result(
                          sender_config.owner, m, x)
                          = "AccountNotInitialized")
    /\ [][\A m \in Mints :
             /\ (deregister_token(sender_config.owner, m)
                     /\ m \in registered_mints)
                => /\ last'.result = "Ok"
                   /\ registered_tokens' =
                          [registered_tokens EXCEPT ![m] = NoRegisteredToken]
                   /\ BigIsZero(registered_tokens'[m].swap_rate)
                   /\ BigIsZero(registered_tokens'[m].max_native_swap_amount)
                   /\ ~registered_tokens'[m].is_registered
             /\ \A r \in RegistryRates, x \in MaxNativeSwapAmounts :
                    (register_token(sender_config.owner, m, r, x)
                         /\ last'.result = "Ok")
                    => /\ m \notin registered_mints
                       /\ registered_tokens' =
                              [registered_tokens EXCEPT ![m] =
                                  [exists |-> TRUE, swap_rate |-> r,
                                   max_native_swap_amount |-> x,
                                   is_registered |-> TRUE]]]_vars

\* The last registered token was deregistered: no record is left and the
\* owner may register the token again with arguments of its choice.
C14_Witness ==
    /\ last.op = "deregister_token"
    /\ last.result = "Ok"
    /\ registered_mints = {}
    /\ register_token_result(sender_config.owner, "spl_mint", NativeSwapRate,
                             BigPow10(9)) = "Ok"

-----------------------------------------------------------------------------
\* C15: in every reachable state the record of the native mint, when it
\* exists, has a max_native_swap_amount of zero: the owner's register_token
\* (token unregistered, rate nonzero) and update_max_native_swap_amount
\* (token registered) fail with SwapsNotAllowedForNativeMint when given the
\* native mint and a nonzero amount, and change no account.
C15_NoSwapsForNativeMint ==
    /\ [](registered_tokens[native_mint].exists =>
              BigIsZero(registered_tokens[native_mint].max_native_swap_amount))
    /\ [][\A x \in MaxNativeSwapAmounts \ { Zero } :
             /\ \A r \in RegistryRates \ { Zero } :
                    (register_token(sender_config.owner, native_mint, r, x)
                         /\ initialized
                         /\ ~registered_tokens[native_mint].exists)
                    => (last'.result = "SwapsNotAllowedForNativeMint"
                            /\ UNCHANGED program_state)
             /\ (update_max_native_swap_amount(sender_config.owner,
                                               native_mint, x)
                     /\ registered_tokens[native_mint].exists)
                => (last'.result = "SwapsNotAllowedForNativeMint"
                        /\ UNCHANGED program_state)]_vars

\* A swap limit for the registered native mint was refused while another
\* token carries one.
C15_Witness ==
    /\ last.op = "update_max_native_swap_amount"
    /\ last.result = "SwapsNotAllowedForNativeMint"
    /\ registered_tokens[native_mint].exists
    /\ BigIsZero(registered_tokens[native_mint].max_native_swap_amount)
    /\ registered_tokens["spl_mint"].exists
    /\ registered_tokens["spl_mint"].max_native_swap_amount = BigPow10(9)

\* C15: for the handlers of lib.rs, the record of the native mint never holds
\* a nonzero max_native_swap_amount, and the owner's register_token (token
\* unregistered, rate nonzero) and update_max_native_swap_amount (token
\* registered) fail with SwapsNotAllowedForNativeMint when given the native
\* mint and a nonzero amount, and change no account.
C15_NoSwapsForNativeMintInline ==
    /\ [](registered_tokens[native_mint].exists =>
              BigIsZero(registered_tokens[native_mint].max_native_swap_amount))
    /\ [][\A x \in MaxNativeSwapAmounts \ { Zero } :
             /\ \A r \in RegistryRates \ { Zero }, e \in BOOLEAN :
                    (inline_register_token(sender_config.owner, native_mint,
                                           r, x, e)
                         /\ initialized
                         /\ ~registered_tokens[native_mint].is_registered)
                    => (last'.result = "SwapsNotAllowedForNativeMint"
                            /\ UNCHANGED program_state)
             /\ (inline_update_max_native_swap_amount(sender_config.owner,
                                                      native_mint, x)
                     /\ registered_tokens[native_mint].is_registered)
                => (last'.result = "SwapsNotAllowedForNativeMint"
                        /\ UNCHANGED program_state)]_vars

\* The native mint was registered through lib.rs with a swap limit, and the
\* record holds it.
C15_InlineWitness ==
    /\ last.op = "register_token"
    /\ last.result = "Ok"
    /\ registered_tokens[native_mint].is_registered
    /\ registered_tokens[native_mint].swaps_enabled
    /\ registered_tokens[native_mint].max_native_swap_amount = BigPow10(9)

-----------------------------------------------------------------------------
\* The seeds of the ForeignContract accounts that exist.
registered_contracts == { b \in SeedBytes : foreign_contracts[b].exists }

\* C16: in every reachable state every ForeignContract record has a chain
\* other than 0 and other than Solana's chain id (1) and an address that is
\* not all zero: the owner's register_foreign_contract fails with
\* InvalidForeignContract for chain 0, chain 1 or the all-zero address and
\* neither creates nor changes a record, and a successful update_relayer_fee
\* changes the fee of its chain's record and nothing else.
C16_ForeignContractsAreValid ==
    /\ [](\A b \in registered_contracts :
              /\ foreign_contracts[b].chain # 0
              /\ foreign_contracts[b].chain # CHAIN_ID_SOLANA
              /\ foreign_contracts[b].address # ZeroAddress)
    /\ [][\A c \in RegistryChains, f \in RegistryFees :
             /\ \A a \in RegistryAddresses :
                    (register_foreign_contract(sender_config.owner, c, a, f)
                         /\ initialized
                         /\ (c = 0 \/ c = CHAIN_ID_SOLANA \/ a = ZeroAddress))
                    => (last'.result = "InvalidForeignContract"
                            /\ UNCHANGED program_state)
             /\ (update_relayer_fee(owner_config.owner, c, f)
                     /\ last'.result = "Ok")
                => /\ foreign_contracts[to_be_bytes(c)].exists
                   /\ foreign_contracts' =
                          [foreign_contracts EXCEPT ![to_be_bytes(c)].fee = f]
                   /\ UNCHANGED << initialized, sender_config, redeemer_config,
                                   owner_config, registered_tokens,
                                   signer_sequence, posted_vaas, claimed >>]_vars

\* An invalid registration was refused while the record of a chain is in
\* place.
C16_Witness ==
    /\ last.op = "register_foreign_contract"
    /\ last.result = "InvalidForeignContract"
    /\ registered_contracts = { to_be_bytes(257) }
    /\ foreign_contracts[to_be_bytes(257)].chain = 257
    /\ foreign_contracts[to_be_bytes(257)].address = 8

-----------------------------------------------------------------------------
\* The record a valid register_foreign_contract call leaves for its chain.
foreign_contract_of(c, a, f) ==
    [exists |-> TRUE, chain |-> c, address |-> a,
     token_bridge_foreign_endpoint |-> endpoint_registration(c), fee |-> f]

\* C17: a successful register_foreign_contract leaves, at the account of its
\* chain, the record made of its own arguments, whether or not the chain had a
\* record before, and changes nothing else, the records of all other chains
\* included; applied in a state where the chain's record is already the one
\* the call would write (the state the same call leaves), it succeeds and
\* changes nothing; accounts of different chains are different accounts.
C17_RegisterForeignContractOverwrites ==
    /\ [][\A c \in RegistryChains, a \in RegistryAddresses, f \in RegistryFees :
             /\ (register_foreign_contract(sender_config.owner, c, a, f)
                     /\ last'.result = "Ok")
                => /\ foreign_contracts'[to_be_bytes(c)]
                          = foreign_contract_of(c, a, f)
                   /\ \A b \in SeedBytes \ { to_be_bytes(c) } :
                          foreign_contracts'[b] = foreign_contracts[b]
                   /\ UNCHANGED << initialized, sender_config, redeemer_config,
                                   owner_config, registered_tokens,
                                   signer_sequence, posted_vaas, claimed >>
             /\ (register_foreign_contract(sender_config.owner, c, a, f)
                     /\ foreign_contracts[to_be_bytes(c)]
                            = foreign_contract_of(c, a, f))
                => (last'.result = "Ok" /\ UNCHANGED program_state)
             /\ (register_foreign_contract(sender_config.owner, c, a, f)
                     /\ initialized /\ valid_foreign_address(c, a))
                => last'.result = "Ok"]_vars
    /\ [](\A c1 \in Chains, c2 \in Chains :
              to_be_bytes(c1) = to_be_bytes(c2) => c1 = c2)

\* A registration succeeded for a chain while another chain has a record:
\* each chain's record carries what was last registered for it.
C17_Witness ==
    /\ last.op = "register_foreign_contract"
    /\ last.result = "Ok"
    /\ foreign_contracts[to_be_bytes(257)] = foreign_contract_of(257, 8, Zero)
    /\ foreign_contracts[to_be_bytes(2)]
           = foreign_contract_of(2, 7, BigPow10(6))

-----------------------------------------------------------------------------
\* C18: once the program is initialized, relayer_fee_precision and
\* swap_rate_precision are greater than zero and SenderConfig and
\* RedeemerConfig hold the same value of each: the owner's precision update
\* with the value 0 fails with InvalidPrecision and changes neither copy, and
\* a successful update writes its value to both copies.
C18_PrecisionsPositiveAndEqual ==
    /\ [](initialized =>
              /\ BigGt(sender_config.relayer_fee_precision, Zero)
              /\ BigGt(sender_config.swap_rate_precision, Zero)
              /\ sender_config.relayer_fee_precision
                     = redeemer_config.relayer_fee_precision
              /\ sender_config.swap_rate_precision
                     = redeemer_config.swap_rate_precision)
    /\ [][\A p \in PrecisionInputs :
             /\ (initialized
                     /\ update_relayer_fee_precision(owner_config.owner, p))
                => IF BigIsZero(p)
                   THEN last'.result = "InvalidPrecision"
                            /\ UNCHANGED program_state
                   ELSE /\ last'.result = "Ok"
                        /\ sender_config'.relayer_fee_precision = p
                        /\ redeemer_config'.relayer_fee_precision = p
             /\ (initialized
                     /\ update_swap_rate_precision(owner_config.owner, p))
                => IF BigIsZero(p)
                   THEN last'.result = "InvalidPrecision"
                            /\ UNCHANGED program_state
                   ELSE /\ last'.result = "Ok"
                        /\ sender_config'.swap_rate_precision = p
                        /\ redeemer_config'.swap_rate_precision = p]_vars

\* A precision of zero was refused after the relayer fee precision had been
\* changed: both copies hold the changed value.
C18_Witness ==
    /\ last.op = "update_relayer_fee_precision"
    /\ last.result = "InvalidPrecision"
    /\ sender_config.relayer_fee_precision = BigPow10(6)
    /\ redeemer_config.relayer_fee_precision = BigPow10(6)
    /\ sender_config.swap_rate_precision = BigPow10(8)

-----------------------------------------------------------------------------
\* The two implementations of checked_token_fee.
FeeCalls ==
    { "ForeignContract::checked_token_fee", "RelayerFee::checked_token_fee" }

\* usd_fee * 10^decimals * SWAP_RATE_PRECISION and the quotient of the fee
\* formula, as numbers of any size.
exact_fee_numerator ==
    BigMul(BigMul(calc.fee, BigPow10(calc.decimals)), SWAP_RATE_PRECISION)
exact_token_fee ==
    BigDiv(exact_fee_numerator, BigMul(calc.swap_rate, calc.precision))

\* A call of checked_token_fee with decimals in 0..18, a nonzero swap rate
\* and precision, and a quotient that fits 64 bits.
FeeCallInRange ==
    /\ calc.fn \in FeeCalls
    /\ calc.decimals \in 0 .. 18
    /\ BigGt(calc.swap_rate, Zero)
    /\ BigGt(calc.precision, Zero)
    /\ BigLe(exact_token_fee, U64_MAX)

\* The fees of the unit test: 60869565217, 6086956521 and 608695652 for 10, 9
\* and 8 decimals, as limbs.
UnitTestFee ==
    [d \in { 8, 9, 10 } |->
        CASE d = 10 -> << 5217, 6956, 608 >>
          [] d = 9  -> << 6521, 8695, 60 >>
          [] d = 8  -> << 5652, 869, 6 >>]

\* A call with the arguments of the unit test.
UnitTestFeeCall ==
    /\ calc.fn \in FeeCalls
    /\ calc.decimals \in { 8, 9, 10 }
    /\ calc.fee = BigMulSmall(BigPow10(9), 42)
    /\ calc.swap_rate = BigMulSmall(BigPow10(8), 69)
    /\ calc.precision = BigPow10(8)

\* C19 as stated: whenever decimals is in 0..18, the swap rate and the
\* precision are nonzero and the quotient fits 64 bits, checked_token_fee
\* returns floor(usd_fee * 10^decimals * swap_rate_precision /
\* (swap_rate * relayer_fee_precision)).
C19_FeeIsQuotientWheneverItFits ==
    FeeCallInRange => calc.result = exact_token_fee

\* C19: whenever decimals is in 0..18, the swap rate and the precision are
\* nonzero, the numerator usd_fee * 10^decimals * swap_rate_precision fits
\* 128 bits and the quotient fits 64 bits, checked_token_fee returns
\* floor(usd_fee * 10^decimals * swap_rate_precision / (swap_rate *
\* relayer_fee_precision)), 60869565217, 6086956521 and 608695652 for the
\* unit test's arguments; when the numerator does not fit 128 bits it
\* returns None, whatever the size of the quotient.
C19_FeeIsQuotientWhenNumeratorFits ==
    /\ FeeCallInRange =>
           IF BigLe(exact_fee_numerator, U128_MAX)
           THEN calc.result = exact_token_fee
           ELSE calc.result = None
    /\ UnitTestFeeCall => calc.result = UnitTestFee[calc.decimals]

\* The call of the unit test with 10 decimals returned 60869565217.
C19_Witness ==
    /\ UnitTestFeeCall
    /\ calc.fn = "ForeignContract::checked_token_fee"
    /\ calc.decimals = 10
    /\ calc.result = << 5217, 6956, 608 >>

-----------------------------------------------------------------------------
\* What the fee formula yields when every overflow and a zero divisor end in
\* None: the power of ten and the numerator within 128 bits, the divisor
\* nonzero, the quotient within 64 bits.
total_token_fee ==
    IF \/ BigGt(BigPow10(calc.decimals), U128_MAX)
       \/ BigGt(exact_fee_numerator, U128_MAX)
       \/ BigIsZero(BigMul(calc.swap_rate, calc.precision))
       \/ BigGt(exact_token_fee, U64_MAX)
    THEN None
    ELSE exact_token_fee

\* A call of calculate_native_swap_amounts that gets as far as the power of
\* ten 10^(decimals - 9) and finds it larger than 128 bits.
SwapPowerOverflows ==
    /\ calc.fn = "RegisteredToken::calculate_native_swap_amounts"
    /\ ~BigIsZero(calc.to_native_token_amount)
    /\ ~BigIsZero(calc.max_native_swap_amount)
    /\ IsSome(native_swap_rate([swap_rate |-> calc.swap_rate],
                               calc.sol_swap_rate, calc.precision))
    /\ calc.decimals > NATIVE_DECIMALS
    /\ BigGt(BigPow10(calc.decimals - NATIVE_DECIMALS), U128_MAX)

\* C20: for every input, zero rates and precisions and every u8 of decimals
\* included, checked_token_fee and calculate_native_swap_amounts never panic
\* and never return a value computed from a wrapped intermediate: the fee is
\* None whenever the power of ten or a product exceeds 128 bits, the divisor
\* is zero or the quotient exceeds 64 bits, and the quotient otherwise; the
\* swap amounts are None whenever the power of ten exceeds 128 bits.
C20_CalculatorsAreTotal ==
    /\ calc.fn \in FeeCalls => calc.result = total_token_fee
    /\ calc.fn = "RegisteredToken::calculate_native_swap_amounts" =>
           /\ calc.result # Panic
           /\ SwapPowerOverflows => calc.result = None

\* A call whose power of ten does not fit 128 bits panicked or returned a
\* value.
C20_Witness ==
    /\ \/ SwapPowerOverflows
       \/ /\ calc.fn = "RelayerFee::checked_token_fee"
          /\ BigGt(BigPow10(calc.decimals), U128_MAX)
    /\ calc.result # None

\* The parts of C20 that hold: ForeignContract::checked_token_fee is total,
\* and the calculators with the unchecked power are total for decimals whose
\* power of ten fits 128 bits.
C20_TotalWithinPowerRange ==
    /\ calc.fn = "ForeignContract::checked_token_fee" =>
           calc.result = total_token_fee
    /\ (calc.fn = "RelayerFee::checked_token_fee"
            /\ BigLe(BigPow10(calc.decimals), U128_MAX)) =>
           calc.result = total_token_fee
    /\ (calc.fn = "RegisteredToken::calculate_native_swap_amounts"
            /\ calc.decimals <= NATIVE_DECIMALS + 38) =>
           calc.result # Panic

-----------------------------------------------------------------------------
\* A call of calculate_native_swap_amounts, its token, and the two
\* intermediate values the function computes from its arguments.
SwapCall == calc.fn = "RegisteredToken::calculate_native_swap_amounts"

swap_call_token ==
    [swap_rate |-> calc.swap_rate,
     max_native_swap_amount |-> calc.max_native_swap_amount]

swap_call_rate ==
    native_swap_rate(swap_call_token, calc.sol_swap_rate, calc.precision)

swap_call_max_swap_amount_in ==
    calculate_max_swap_amount_in(swap_call_token, calc.decimals,
                                 swap_call_rate, calc.precision)

\* C21: calculate_native_swap_amounts returns Some((0, 0)) whenever the
\* requested to-native amount is 0 or the token's max_native_swap_amount is
\* 0, whatever the decimals, rates and precision, those for which the native
\* swap rate is None or the power of ten overflows included.
C21_ZeroRequestOrLimitSwapsNothing ==
    (/\ SwapCall
     /\ \/ BigIsZero(calc.to_native_token_amount)
        \/ BigIsZero(calc.max_native_swap_amount)) =>
        calc.result = << Zero, Zero >>

\* A call with a nonzero request and a zero limit, for a token whose swap
\* rate is zero (the rate computation divides by it), returned (0, 0).
C21_Witness ==
    /\ SwapCall
    /\ ~BigIsZero(calc.to_native_token_amount)
    /\ BigIsZero(calc.max_native_swap_amount)
    /\ swap_call_rate = None
    /\ calc.result = << Zero, Zero >>

-----------------------------------------------------------------------------
\* C22: whenever calculate_native_swap_amounts returns
\* Some((token_amount_in, native_amount_out)), token_amount_in is at most the
\* requested to-native amount and at most max_swap_amount_in,
\* native_amount_out is at most max_native_swap_amount, and a request above
\* max_swap_amount_in with a nonzero output is charged exactly
\* max_swap_amount_in.
C22_SwapAmountsWithinLimits ==
    (SwapCall /\ IsSome(calc.result)) =>
        /\ BigLe(calc.result[1], calc.to_native_token_amount)
        /\ BigLe(calc.result[2], calc.max_native_swap_amount)
        /\ IsSome(swap_call_max_swap_amount_in) =>
               BigLe(calc.result[1], swap_call_max_swap_amount_in)
        /\ ~IsSome(swap_call_max_swap_amount_in) =>
               calc.result = << Zero, Zero >>
        /\ (/\ IsSome(swap_call_max_swap_amount_in)
            /\ BigGt(calc.to_native_token_amount,
                     swap_call_max_swap_amount_in)
            /\ ~BigIsZero(calc.result[2])) =>
               calc.result[1] = swap_call_max_swap_amount_in

\* The unit test's request of 6900000000000 for a token limited to 1 SOL was
\* cut to 420000000000 and bought exactly 1000000000 lamports.
C22_Witness ==
    /\ SwapCall
    /\ calc.decimals = 10
    /\ calc.to_native_token_amount = BigMulSmall(BigPow10(11), 69)
    /\ calc.max_native_swap_amount = BigPow10(9)
    /\ swap_call_max_swap_amount_in = BigMulSmall(BigPow10(10), 42)
    /\ calc.result = << BigMulSmall(BigPow10(10), 42), BigPow10(9) >>

-----------------------------------------------------------------------------
\* C23: calculate_native_swap_amounts never returns a nonzero
\* token_amount_in with a zero native_amount_out: in every Some((in, out)),
\* in = 0 exactly when out = 0, and a swap whose output truncates to zero
\* returns (0, 0).
C23_NoChargeForZeroOutput ==
    (SwapCall /\ IsSome(calc.result)) =>
        /\ BigIsZero(calc.result[1]) <=> BigIsZero(calc.result[2])
        /\ (/\ IsSome(swap_call_max_swap_amount_in)
            /\ BigLe(calc.to_native_token_amount,
                     swap_call_max_swap_amount_in)
            /\ native_swap_amount_out(calc.decimals, swap_call_rate,
                                      calc.precision,
                                      calc.to_native_token_amount) = Zero) =>
               calc.result = << Zero, Zero >>

\* The unit test's request of 1 unit of a 10-decimal token, within the
\* limit, buys less than one lamport: the call returned (0, 0).
C23_Witness ==
    /\ SwapCall
    /\ calc.to_native_token_amount = One
    /\ BigGt(swap_call_max_swap_amount_in, Zero)
    /\ ~BigIsZero(calc.max_native_swap_amount)
    /\ native_swap_amount_out(calc.decimals, swap_call_rate, calc.precision,
                              One) = Zero
    /\ calc.result = << Zero, Zero >>

-----------------------------------------------------------------------------
\* 256^k
Pow256(k) == bytes_value(<< 1 >> \o zero_bytes(k))

\* byte k (1 the most significant) of the 8-byte big-endian form of x
be_byte(x, k) == BigLimb(BigMod(BigDiv(x, Pow256(8 - k)), << 256 >>), 1)

\* The layout of an encoded TransferWithRelay message.
IsEncodingOf(b, m) ==
    /\ Len(b) = 97
    /\ b[1] = 1
    /\ \A i \in 2..25 : b[i] = 0
    /\ \A k \in 1..8 : b[25 + k] = be_byte(m.target_relayer_fee, k)
    /\ \A i \in 34..57 : b[i] = 0
    /\ \A k \in 1..8 : b[57 + k] = be_byte(m.to_native_token_amount, k)
    /\ \A i \in 1..32 : b[65 + i] = m.recipient[i]

\* C24: for every target_relayer_fee and to_native_token_amount in u64 and
\* every 32-byte recipient, the encoding has exactly 97 bytes (tag 1, 24 zero
\* bytes, the fee in 8 big-endian bytes, 24 zero bytes, the to-native amount
\* in 8 big-endian bytes, the recipient), and decoding it returns the three
\* field values encoded.
C24_EncodeDecodeRoundTrip ==
    /\ (calc.args = "message" /\ calc.fn # "") =>
           IsEncodingOf(calc.buffer, calc.message)
    /\ calc.fn = "serialize, deserialize" =>
           /\ calc.result.ok
           /\ calc.result.message = calc.message

\* The unit test's message (fee 6900000, to-native amount 100000000) with a
\* recipient of 32 different bytes was encoded and decoded to itself.
C24_Witness ==
    /\ calc.fn = "serialize, deserialize"
    /\ calc.message.target_relayer_fee = BigMulSmall(BigPow10(5), 69)
    /\ calc.message.to_native_token_amount = BigPow10(8)
    /\ calc.message.recipient = [i \in 1..32 |-> i]
    /\ SubSeq(calc.buffer, 26, 33) = << 0, 0, 0, 0, 0, 105, 73, 32 >>
    /\ calc.result = Ok(calc.message)

-----------------------------------------------------------------------------
\* A buffer that must not decode: wrong length, unknown discriminant, or a
\* nonzero byte in the padding of either integer.
Malformed(b) ==
    \/ Len(b) # 97
    \/ b[1] # 1
    \/ \E i \in (2..25) \cup (34..57) : b[i] # 0

DecodeErrors == { "invalid payload size", "invalid payload ID", "u64 overflow" }

\* C25: decoding returns an error value for every buffer whose length is not
\* 97, whose first byte is not 1, or with a nonzero byte among the 24 padding
\* bytes before either integer; every buffer that decodes re-encodes to the
\* same 97 bytes.
C25_DecodeRejectsMalformed ==
    /\ (calc.fn = "deserialize" /\ Malformed(calc.buffer)) =>
           /\ ~calc.result.ok
           /\ calc.result.error \in DecodeErrors
    /\ (calc.fn = "deserialize" /\ ~Malformed(calc.buffer)) =>
           calc.result.ok
    /\ calc.fn = "deserialize, serialize" => calc.encoded = calc.buffer

\* A buffer of 97 bytes with discriminant 1 whose only fault is the last
\* padding byte of the to-native amount was refused.
C25_Witness ==
    /\ calc.fn = "deserialize"
    /\ Len(calc.buffer) = 97
    /\ calc.buffer[1] = 1
    /\ \A i \in (2..25) \cup (34..56) : calc.buffer[i] = 0
    /\ calc.buffer[57] = 255
    /\ calc.result = Err("u64 overflow")

-----------------------------------------------------------------------------
\* The step just taken is a transfer of payer p that was accepted.
accepted_transfer_of(p) ==
    /\ last'.op \in TransferOps
    /\ last'.result = "Ok"
    /\ last'.effect.payer = p

\* C26: every payer's SignerSequence value starts at zero and counts that
\* payer's accepted transfers: an accepted transfer of the payer advances it
\* by exactly one and posts its message under the value before the step;
\* every other step (a refused transfer of any payer, an accepted transfer of
\* another payer, a configuration instruction) leaves it as it was. The
\* value therefore never decreases and no two accepted transfers of a payer
\* post under the same value.
C26_SequenceCountsAcceptedTransfers ==
    /\ \A p \in Keys : signer_sequence[p] = 0
    /\ [][\A p \in Keys :
              IF accepted_transfer_of(p)
              THEN /\ signer_sequence'[p] = signer_sequence[p] + 1
                   /\ last'.effect.posted
                   /\ last'.effect.sequence = signer_sequence[p]
              ELSE signer_sequence'[p] = signer_sequence[p]]_vars
    /\ [][\A p \in SequencePayers :
              (last'.op \in TransferOps /\ last'.result # "Ok") =>
                  /\ UNCHANGED signer_sequence
                  /\ ~last'.effect.posted]_vars

\* Payer 2 has made two accepted transfers and payer 3 one, and the latest
\* call, payer 3's first accepted transfer, posted under that payer's value 0.
C26_Witness ==
    /\ signer_sequence[2] = 2
    /\ signer_sequence[3] = 1
    /\ last.op \in TransferOps
    /\ last.result = "Ok"
    /\ last.effect.payer = 3
    /\ last.effect.sequence = 0

-----------------------------------------------------------------------------
\* The four checks of prepare_transfer.
TransferChecks ==
    { "require valid_foreign_address",
      "require normalized_to_native_amount > 0",
      "checked_token_fee",
      "require amount > to_native_amount + relayer_fee" }

\* The statements that take the payer's tokens into the temporary account,
\* and the delegate approval.
CustodySteps == { "system_program::transfer", "token::sync_native", "token::transfer" }
ApprovalSteps == { "token::approve" }

\* Statement i of the latest transfer ran, and completed, before statement j.
ran_before(names, i, j) ==
    /\ i \in 1..Len(last.effect.steps)
    /\ j \in 1..Len(last.effect.steps)
    /\ i < j
    /\ last.effect.steps[i].name \in names

\* C27: in the outbound entry points the recipient-address, to-native-amount,
\* fee-calculation and insufficient-funds checks are all evaluated before any
\* token moves from the payer to the temporary account and before the
\* delegate approval: no such statement runs before one of the checks, and a
\* refused transfer has executed no state-changing statement when it ends.
C27_ValidationPrecedesMutation ==
    last.op \in TransferOps =>
        /\ \A i, j \in 1..Len(last.effect.steps) :
               ran_before(CustodySteps \cup ApprovalSteps, i, j) =>
                   last.effect.steps[j].name \notin TransferChecks
        /\ last.result # "Ok" =>
               \A i \in 1..(Len(last.effect.steps) - 1) :
                   ~last.effect.steps[i].mutates

\* A transfer to the all-zero recipient was refused with InvalidRecipient
\* after the payer's tokens had been moved to the temporary account.
C27_Witness ==
    /\ last.op \in TransferOps
    /\ last.result = "InvalidRecipient"
    /\ \E i, j \in 1..Len(last.effect.steps) :
           /\ ran_before({ "token::transfer" }, i, j)
           /\ last.effect.steps[j].name = "require valid_foreign_address"

\* The part of C27 that holds: the delegate approval follows the four checks,
\* and so do the increment of the payer's sequence and the Token Bridge call.
C27_ApprovalFollowsChecks ==
    last.op \in TransferOps =>
        \A i, j \in 1..Len(last.effect.steps) :
            ran_before(ApprovalSteps
                           \cup { "take_and_uptick",
                                  "token_bridge::transfer_native_with_payload",
                                  "token_bridge::transfer_wrapped_with_payload" },
                       i, j) =>
                last.effect.steps[j].name \notin TransferChecks

-----------------------------------------------------------------------------
\* C28: once the program is initialized the owner key changes in no step
\* other than a successful confirm_ownership_transfer_request, which installs
\* the pending key in all three configs; and a successful submit replaces a
\* pending request: when submit(k2) follows submit(k1) with no confirm or
\* cancel in between, k1 being another key, then a confirm by k1 fails with
\* NotPendingOwner and a confirm by k2 succeeds and makes k2 the owner.
C28_OnlyLatestSubmitConfirms ==
    /\ [][(initialized /\ owner_config'.owner # owner_config.owner) =>
              /\ last'.op = "confirm_ownership_transfer_request"
              /\ last'.result = "Ok"
              /\ owner_config'.owner = owner_config.pending_owner
              /\ sender_config'.owner = owner_config.pending_owner
              /\ redeemer_config'.owner = owner_config.pending_owner]_vars
    /\ [][\A s \in Signers, k1 \in Signers, k2 \in Signers :
              (/\ owner_config.pending_owner = k1
               /\ k2 # k1
               /\ submit_ownership_transfer_request(s, k2)
               /\ last'.result = "Ok") =>
                  /\ owner_config'.pending_owner = k2
                  /\ owner_config'.owner = owner_config.owner
                  /\ confirm_ownership_transfer_request_result(k1)'
                         = "NotPendingOwner"
                  /\ confirm_ownership_transfer_request_result(k2)' = "Ok"]_vars
    /\ [][\A s \in Signers :
              (/\ confirm_ownership_transfer_request(s)
               /\ last'.result = "Ok") =>
                  /\ s = owner_config.pending_owner
                  /\ owner_config'.owner = s]_vars

\* Key 3, proposed while the request for key 2 was pending, confirmed and is
\* the owner in all three configs.
C28_Witness ==
    /\ last.op = "confirm_ownership_transfer_request"
    /\ last.result = "Ok"
    /\ owner_config.owner = 3
    /\ sender_config.owner = 3
    /\ redeemer_config.owner = 3
    /\ owner_config.pending_owner = NoKey

-----------------------------------------------------------------------------
\* The sum of the latest transfer's normalized to-native amount and
\* normalized relayer fee as an unbounded integer, and its normalized amount.
last_exact_required ==
    BigAdd(last.effect.to_native_token_amount, last.effect.target_relayer_fee)

last_normalized_amount ==
    normalize_amount(last.effect.amount, mint_decimals(last.effect.mint))

\* C29: the insufficient-funds check is exact over 64-bit inputs: no transfer
\* is accepted when normalized_to_native_amount + normalized_relayer_fee,
\* taken as an unbounded integer, is greater than or equal to
\* normalized_amount; the 64-bit addition does not wrap around.
C29_FundsCheckIsExact ==
    (last.op \in TransferOps /\ last.result = "Ok") =>
        /\ BigLt(last_exact_required, last_normalized_amount)
        /\ BigLe(last_exact_required, U64_MAX)

\* A transfer was accepted whose to-native amount and relayer fee add up to
\* more than 64 bits hold: the sum the code compared had wrapped around.
C29_Witness ==
    /\ last.op \in TransferOps
    /\ last.result = "Ok"
    /\ ~overflow_checks
    /\ BigGt(last_exact_required, U64_MAX)
    /\ BigLt(BigSub(last_exact_required, TwoPow64), last_normalized_amount)

\* The part of C29 that holds: in a build with overflow checks the addition
\* aborts the instruction instead of wrapping, and no such transfer passes.
C29_ExactWithOverflowChecks ==
    (overflow_checks /\ last.op \in TransferOps /\ last.result = "Ok") =>
        BigLt(last_exact_required, last_normalized_amount)

-----------------------------------------------------------------------------
\* The ForeignContract account that register_foreign_contract writes for a
\* chain, and that update_relayer_fee and the outbound transfers read.
registered_foreign_contract(chain) == foreign_contracts[to_be_bytes(chain)]

\* C30: for every chain id, the account in which register_foreign_contract
\* stores the record of the chain is the account that update_relayer_fee,
\* outbound transfers to the chain and redemptions of messages emitted on the
\* chain read: a contract registered for a chain is the one found for it.
C30_RegisteredContractIsFound ==
    \A id \in posted_vaas :
        redeem_foreign_contract(id) =
            registered_foreign_contract(Vaas[id].emitter_chain)

\* A message emitted on chain 2 was refused because the account its
\* redemption read is the one registered for chain 512, while no contract
\* is registered for chain 2.
C30_Witness ==
    /\ last.op \in RedeemOps
    /\ last.result = "InvalidForeignContract"
    /\ last.effect.vaa \in posted_vaas
    /\ Vaas[last.effect.vaa].emitter_chain = 2
    /\ ~registered_foreign_contract(2).exists
    /\ registered_foreign_contract(512).exists
    /\ redeem_foreign_contract(last.effect.vaa) =
           registered_foreign_contract(512)
    /\ redeem_foreign_contract(last.effect.vaa).chain = 512

\* What holds instead: a redemption succeeds only for an emitter chain whose
\* two bytes are equal, the only chains whose record is found where it was
\* stored.
C30_OnlySymmetricChainsRedeem ==
    Redeemed =>
        /\ to_le_bytes(Vaas[last.effect.vaa].emitter_chain) =
               to_be_bytes(Vaas[last.effect.vaa].emitter_chain)
        /\ redeem_foreign_contract(last.effect.vaa) =
               registered_foreign_contract(Vaas[last.effect.vaa].emitter_chain)

=============================================================================
